---- MODULE Spec2Model ----
(***************************************************************************)
(* A model of the rasp interpreter: the bytecode compiler (bytecode.rs),   *)
(* the stack VM (vm.rs), the intrinsics (builtins.rs) and the type-alias   *)
(* resolution of the preprocessor (gatherer.rs, internal.rs), the lexer    *)
(* (lexer.rs) and the parser (parser.rs).                                  *)
(*                                                                         *)
(* Text (identifiers, string literals) is a sequence of one-character      *)
(* strings.  Numbers (f64 in the source) are integers here: the programs   *)
(* of the model only use small integral literals.                          *)
(***************************************************************************)
EXTENDS Integers, Sequences, FiniteSets, TLC

VARIABLES
    \* ---- compiler and VM (main.rs, bytecode.rs, vm.rs)
    ast,            \* the pruned top-level tree handed to the compiler
    fun_table,      \* FunTable.funs
    bytecode,       \* result of ToBytecode::to_bytecode on ast
    frames,         \* the active VM::run invocations, outermost first
    var_stack,      \* VM.var_stack
    value_stack,    \* VM.value_stack
    fun_bytecode,   \* VM.fun_bytecode, the per-function cache
    fun_stack,      \* VM.fun_stack
    vm_status,      \* "new", "compiled", "running", "ok", "err", "panic", ...
    new_count,      \* NewVarStack instructions executed so far
    pop_count,      \* PopVarStack instructions executed so far
    \* ---- type-alias resolution (gatherer.rs, internal.rs)
    type_mappings,  \* the (old, new) pairs TypeGatherer::gather yields
    type_table,     \* the local type_table of gather_and_link
    proto_types,    \* the pending pairs
    last_size,      \* last_size of the fixed-point loop
    gl_pc,          \* position inside gather_and_link
    gl_result,      \* its result
    passes,         \* passes over the declarations made so far
    self_table,     \* the receiving TypeTable of the preprocessor
    merges,         \* TypeTable::merge calls made so far
    \* ---- lexer and parser (lexer.rs, parser.rs)
    source,         \* the source text
    lexer,          \* the Lexer: curr, peek and the rest of source_iter
    tokens,         \* the tokens next_token has returned so far
    lex_status,     \* "ok", or "panic" once next_token has aborted
    parse_result,   \* the result of Parser::parse on the source
    pp,             \* Preprocessor::preprocess calls on ast, fun_table and self_table
    reprinted       \* the nodes of the parsed tree, printed and parsed again

vm_vars == <<ast, fun_table, bytecode, frames, var_stack, value_stack,
             fun_bytecode, fun_stack, vm_status, new_count, pop_count>>
type_vars == <<type_mappings, type_table, proto_types, last_size, gl_pc,
               gl_result, passes, self_table, merges>>
front_vars == <<source, lexer, tokens, lex_status, parse_result, pp, reprinted>>
vars == <<vm_vars, type_vars, front_vars>>

----------------------------------------------------------------------------
\* Text constants

LET_NAME == <<"l", "e", "t">>
LIST_NAME == <<"l", "i", "s", "t">>
IF_NAME == <<"i", "f">>
PLUS == <<"+">>
MINUS == <<"-">>
TIMES == <<"*">>
DIVIDE == <<"/">>
EQUALS == <<"=">>
CAR == <<"c", "a", "r">>
CDR == <<"c", "d", "r">>
NIL_P == <<"n", "i", "l", "?">>
APPEND == <<"a", "p", "p", "e", "n", "d">>
STRING_FN == <<"s", "t", "r", "i", "n", "g">>

\* names used by the programs of the model
X == <<"x">>
Y == <<"y">>
F == <<"f">>

\* Bounds of the model
MaxArgs == 2          \* arguments of a call or list form in the input programs
MaxCallDepth == 3     \* nested VM::run invocations
MaxRequired == 2      \* required parameters of a function under the arity check
MaxOptional == 2      \* optional parameters of a function under the arity check
MaxDecls == 3         \* &type declarations of one file
MaxMergeDecls == 2    \* &type declarations of a file whose table is merged
MaxMerges == 2        \* TypeTable::merge calls into one receiving table

\* the keys of the intrinsic table (builtins.rs)
BUILTIN_FUNCTIONS ==
    {<<"s", "t", "d", "o", "p", "e", "n">>,
     <<"s", "t", "d", "c", "l", "o", "s", "e">>,
     <<"s", "t", "d", "w", "r", "i", "t", "e">>,
     <<"s", "t", "d", "r", "e", "a", "d">>,
     PLUS, MINUS, TIMES, DIVIDE,
     CAR, CDR, NIL_P, LIST_NAME, APPEND, STRING_FN, EQUALS}

----------------------------------------------------------------------------
\* Value (vm.rs): every variant carries all fields so that values compare

Value(t, n, s, l) == [t |-> t, n |-> n, s |-> s, l |-> l]
VString(s) == Value("String", 0, s, <<>>)
VNumber(n) == Value("Number", n, <<>>, <<>>)
VIdentifier(s) == Value("Identifier", 0, s, <<>>)
VList(l) == Value("List", 0, <<>>, l)
VBoolean(b) == Value("Boolean", IF b THEN 1 ELSE 0, <<>>, <<>>)
VStartArgs(n) == Value("StartArgs", n, <<>>, <<>>)
VEndArgs == Value("EndArgs", 0, <<>>, <<>>)
NoValue == Value("None", 0, <<>>, <<>>)

is_listy(v) == v.t \in {"String", "List"}
is_list(v) == v.t = "List"
is_string(v) == v.t = "String"
is_number(v) == v.t = "Number"
is_end_args(v) == v.t = "EndArgs"

----------------------------------------------------------------------------
\* AST (ast.rs), ranges left out

Node(k, n, s, c) == [k |-> k, n |-> n, s |-> s, c |-> c]
Expr(c) == Node("Expr", 0, <<>>, c)
StringLit(s) == Node("StringLit", 0, s, <<>>)
Identifier(s) == Node("Identifier", 0, s, <<>>)
Number(n) == Node("Number", n, <<>>, <<>>)

is_expr(a) == a.k = "Expr"
is_identifier(a) == a.k = "Identifier"

RECURSIVE to_value(_)
to_value(a) ==
    CASE a.k = "Expr" -> VList([i \in 1..Len(a.c) |-> to_value(a.c[i])])
      [] a.k = "StringLit" -> VString(a.s)
      [] a.k = "Identifier" -> VIdentifier(a.s)
      [] OTHER -> VNumber(a.n)

----------------------------------------------------------------------------
\* Function table (internal.rs)

Param(name, optional) == [name |-> name, optional |-> optional]
Function(name, params, body) == [name |-> name, params |-> params, body |-> body]

has_fun(funs, name) == \E i \in 1..Len(funs) : funs[i].name = name

\* the first descriptor with the name, in table order
get_fun(funs, name) ==
    funs[CHOOSE i \in 1..Len(funs) :
            /\ funs[i].name = name
            /\ \A j \in 1..(i - 1) : funs[j].name # name]

----------------------------------------------------------------------------
\* Bytecode (bytecode.rs)

Instr(op, name, val, n) == [op |-> op, name |-> name, val |-> val, n |-> n]
Call(name, argc) == Instr("Call", name, NoValue, argc)
Push(v) == Instr("Push", <<>>, v, 0)
Pop(name) == Instr("Pop", name, NoValue, 0)
Load(name) == Instr("Load", name, NoValue, 0)
Store(name, v) == Instr("Store", name, v, 0)
NewVarStack == Instr("NewVarStack", <<>>, NoValue, 0)
PopVarStack == Instr("PopVarStack", <<>>, NoValue, 0)
Skip(n) == Instr("Skip", <<>>, NoValue, n)
SkipFalse(n) == Instr("SkipFalse", <<>>, NoValue, n)

\* Result<Vec<Bytecode>>; st = "panic" is an abort of the process
Ok(code) == [st |-> "ok", code |-> code, err |-> ""]
Err(msg) == [st |-> "err", code |-> <<>>, err |-> msg]
Panic(msg) == [st |-> "panic", code |-> <<>>, err |-> msg]

Reverse(s) == [i \in 1..Len(s) |-> s[Len(s) + 1 - i]]

min_function_args(fun) ==
    LET opt == {i \in 1..Len(fun.params) : fun.params[i].optional}
    IN  IF opt = {} THEN Len(fun.params)
        ELSE (CHOOSE i \in opt : \A j \in opt : i <= j) - 1

max_function_args(fun) == Len(fun.params)

\* the branch of expr_to_bytecode a call's head name selects
UsesIntrinsicPath(funs, name) == name \in BUILTIN_FUNCTIONS

\* the operands of the Skip that ends the then-branch of an `if`
IfSkipOperand(third_codez) == Len(third_codez) + 1

RECURSIVE to_bytecode(_, _)
RECURSIVE expr_to_bytecode(_, _)
RECURSIVE args_to_bytecode(_, _)
RECURSIVE let_sets(_, _)

\* the argument loops of expr_to_bytecode (lines 120-134 and 154-172)
args_to_bytecode(funs, args) ==
    IF args = <<>> THEN Ok(<<>>)
    ELSE LET arg == Head(args)
             one == IF is_expr(arg) THEN expr_to_bytecode(funs, arg)
                    ELSE IF is_identifier(arg) THEN Ok(<<Load(arg.s)>>)
                    ELSE Ok(<<Push(to_value(arg))>>)
         IN  IF one.st # "ok" THEN one
             ELSE LET rest == args_to_bytecode(funs, Tail(args))
                  IN  IF rest.st # "ok" THEN rest
                      ELSE Ok(one.code \o rest.code)

\* the binding loop of let_builtin
let_sets(funs, sets) ==
    IF sets = <<>> THEN Ok(<<>>)
    ELSE LET set == Head(sets)
         IN  IF ~is_expr(set) \/ Len(set.c) # 2
                 THEN Err("assignments must be a list of two items")
             ELSE IF ~is_identifier(set.c[1])
                 THEN Err("assignments name must be an identifier")
             ELSE LET one == IF is_expr(set.c[2])
                                THEN LET v == expr_to_bytecode(funs, set.c[2])
                                     IN  IF v.st # "ok" THEN v
                                         ELSE Ok(v.code \o <<Pop(set.c[1].s)>>)
                                ELSE Ok(<<Store(set.c[1].s, to_value(set.c[2]))>>)
                  IN  IF one.st # "ok" THEN one
                      ELSE LET rest == let_sets(funs, Tail(sets))
                           IN  IF rest.st # "ok" THEN rest
                               ELSE Ok(one.code \o rest.code)

let_builtin(funs, a) ==
    IF Len(a.c) < 2 THEN Panic("index out of bounds")
    ELSE IF ~is_identifier(a.c[1])
        THEN Err("let function must be called as an identifier")
    ELSE IF ~is_expr(a.c[2])
        THEN Err("second argument of let function must be a list")
    ELSE LET sets == let_sets(funs, a.c[2].c)
         IN  IF sets.st # "ok" THEN sets
             ELSE LET inner == to_bytecode(funs, SubSeq(a.c, 3, Len(a.c)))
                  IN  IF inner.st # "ok" THEN inner
                      ELSE Ok(<<NewVarStack>> \o sets.code \o inner.code
                              \o <<PopVarStack>>)

list_builtin(funs, a) ==
    IF ~is_identifier(a.c[1])
        THEN Err("list function must be called as an identifier")
    ELSE LET l == to_bytecode(funs, Reverse(Tail(a.c)))
         IN  IF l.st # "ok" THEN l
             ELSE Ok(<<Push(VEndArgs)>> \o l.code
                     \o <<Push(VStartArgs(Len(l.code))), Call(LIST_NAME, 0)>>)

if_builtin(funs, a) ==
    IF ~is_identifier(a.c[1])
        THEN Err("if function must be called as an identifier")
    ELSE IF Len(a.c) - 1 # 3
        THEN Err("if function requires exactly 3 arguments")
    ELSE LET first_codez == to_bytecode(funs, <<a.c[2]>>)
             second_codez == to_bytecode(funs, <<a.c[3]>>)
             third_codez == to_bytecode(funs, <<a.c[4]>>)
         IN  IF first_codez.st # "ok" THEN first_codez
             ELSE IF second_codez.st # "ok" THEN second_codez
             ELSE IF third_codez.st # "ok" THEN third_codez
             ELSE Ok(first_codez.code
                     \o <<SkipFalse(Len(second_codez.code) + 1)>>
                     \o second_codez.code
                     \o <<Skip(IfSkipOperand(third_codez.code))>>
                     \o third_codez.code)

expr_to_bytecode(funs, expr) ==
    LET exprs == expr.c IN
    IF Len(exprs) = 0 THEN Ok(<<Push(VList(<<>>))>>)
    ELSE LET first == exprs[1]
             name == first.s
             args == Tail(exprs)
         IN
         CASE first.k = "Expr" ->
                Err("attempt to call expression as a function")
           [] first.k = "Number" ->
                Err("attempt to call number literal as a function")
           [] OTHER ->
                IF name = LET_NAME THEN let_builtin(funs, expr)
                ELSE IF name = LIST_NAME THEN list_builtin(funs, expr)
                ELSE IF name = IF_NAME THEN if_builtin(funs, expr)
                ELSE IF ~has_fun(funs, name) /\ name \notin BUILTIN_FUNCTIONS
                    THEN Err("attempt to call non-existent function")
                ELSE IF UsesIntrinsicPath(funs, name)
                    THEN LET inner == args_to_bytecode(funs, args)
                         IN  IF inner.st # "ok" THEN inner
                             ELSE Ok(inner.code \o <<Call(name, Len(args))>>)
                ELSE LET fun == get_fun(funs, name)
                     IN  IF \/ Len(args) > max_function_args(fun)
                            \/ Len(args) < min_function_args(fun)
                             THEN Err("no variant of function takes N arguments")
                         ELSE LET inner == args_to_bytecode(funs, args)
                              IN  IF inner.st # "ok" THEN inner
                                  ELSE Ok(inner.code \o <<Call(name, Len(args))>>)

to_bytecode(funs, tree) ==
    IF tree = <<>> THEN Ok(<<>>)
    ELSE LET expr == Head(tree)
             one == CASE expr.k = "Expr" -> expr_to_bytecode(funs, expr)
                      [] expr.k = "StringLit" -> Ok(<<Push(VString(expr.s))>>)
                      [] expr.k = "Identifier" -> Ok(<<Load(expr.s)>>)
                      [] OTHER -> Ok(<<Push(VNumber(expr.n))>>)
         IN  IF one.st # "ok" THEN one
             ELSE LET rest == to_bytecode(funs, Tail(tree))
                  IN  IF rest.st # "ok" THEN rest
                      ELSE Ok(one.code \o rest.code)

\* VM::compile_function: one Pop per parameter, then the body
compile_function(funs, fun) ==
    LET prelude == [i \in 1..Len(fun.params) |-> Pop(fun.params[i].name)]
        body == to_bytecode(funs, fun.body)
    IN  IF body.st # "ok" THEN body ELSE Ok(prelude \o body.code)

----------------------------------------------------------------------------
\* Intrinsics (builtins.rs).  A result is the new value stack and a status:
\* "ok", "err" (the intrinsic returned Err) or "panic" (pop_value on an empty
\* stack, or an accessor on the wrong variant).  The top of the value stack
\* is its last element.

BOk(stack) == [st |-> "ok", stack |-> stack]
BErr(stack) == [st |-> "err", stack |-> stack]
BPanic(stack) == [st |-> "panic", stack |-> stack]

Top(stack) == stack[Len(stack)]
Drop(stack, k) == SubSeq(stack, 1, Len(stack) - k)

\* a quotient of the f64 division that is no integer, or not finite
VInexact == Value("Number", 0, <<"?">>, <<>>)

\* left / right of divide
Quotient(left, right) ==
    IF right # 0 /\ (left \div right) * right = left
    THEN VNumber(left \div right)
    ELSE VInexact

\* arith with the operands exchanged
arith_operands_exchanged(name, stack) ==
    IF Len(stack) < 2 THEN BPanic(<<>>)
    ELSE LET left_val == Top(stack)
             right_val == stack[Len(stack) - 1]
             rest == Drop(stack, 2)
         IN  IF ~is_number(left_val) \/ ~is_number(right_val) THEN BErr(rest)
             ELSE BOk(Append(rest,
                    CASE name = PLUS -> VNumber(left_val.n + right_val.n)
                      [] name = MINUS -> VNumber(left_val.n - right_val.n)
                      [] name = TIMES -> VNumber(left_val.n * right_val.n)
                      [] OTHER -> Quotient(left_val.n, right_val.n)))

\* plus, minus, times, divide: right operand popped first
arith(name, stack) ==
    IF Len(stack) < 2 THEN BPanic(<<>>)
    ELSE LET right_val == Top(stack)
             left_val == stack[Len(stack) - 1]
             rest == Drop(stack, 2)
         IN  IF ~is_number(left_val) \/ ~is_number(right_val) THEN BErr(rest)
             ELSE BOk(Append(rest,
                    CASE name = PLUS -> VNumber(left_val.n + right_val.n)
                      [] name = MINUS -> VNumber(left_val.n - right_val.n)
                      [] name = TIMES -> VNumber(left_val.n * right_val.n)
                      [] OTHER -> Quotient(left_val.n, right_val.n)))

equals(stack) ==
    IF Len(stack) < 2 THEN BPanic(<<>>)
    ELSE BOk(Append(Drop(stack, 2),
                    VBoolean(Top(stack) = stack[Len(stack) - 1])))

\* append with the top value put first
append_top_first(stack) ==
    IF Len(stack) < 2 THEN BPanic(<<>>)
    ELSE LET first == Top(stack)
             second == stack[Len(stack) - 1]
             rest == Drop(stack, 2)
         IN  IF ~is_listy(first) \/ ~is_listy(second) THEN BErr(rest)
             ELSE IF is_list(first) # is_list(second) THEN BErr(rest)
             ELSE IF is_list(first)
                 THEN BOk(Append(rest, VList(first.l \o second.l)))
             ELSE BOk(Append(rest, VString(first.s \o second.s)))

append(stack) ==
    IF Len(stack) < 2 THEN BPanic(<<>>)
    ELSE LET first == Top(stack)
             second == stack[Len(stack) - 1]
             rest == Drop(stack, 2)
         IN  IF ~is_listy(first) \/ ~is_listy(second) THEN BErr(rest)
             ELSE IF is_list(first) # is_list(second) THEN BErr(rest)
             ELSE IF is_list(first)
                 THEN BOk(Append(rest, VList(second.l \o first.l)))
             ELSE BOk(Append(rest, VString(second.s \o first.s)))

RECURSIVE list_loop(_, _, _)
list_loop(stack, arg_count, result_list) ==
    IF arg_count < 0 THEN BOk(Append(stack, VList(result_list)))
    ELSE IF Len(stack) = 0 THEN BErr(stack)
    ELSE IF is_end_args(Top(stack))
        THEN BOk(Append(Drop(stack, 1), VList(result_list)))
    ELSE list_loop(Drop(stack, 1), arg_count - 1, Append(result_list, Top(stack)))

list(stack) ==
    IF Len(stack) = 0 \/ Top(stack).t # "StartArgs" THEN BPanic(stack)
    ELSE list_loop(Drop(stack, 1), Top(stack).n, <<>>)

is_nil(stack) ==
    IF Len(stack) = 0 THEN BPanic(<<>>)
    ELSE LET first == Top(stack)
             rest == Drop(stack, 1)
         IN  IF is_string(first) THEN BOk(Append(rest, VBoolean(Len(first.s) = 0)))
             ELSE IF is_list(first) THEN BOk(Append(rest, VBoolean(Len(first.l) = 0)))
             ELSE BErr(rest)

cdr(stack) ==
    IF Len(stack) = 0 THEN BPanic(<<>>)
    ELSE LET first == Top(stack)
             rest == Drop(stack, 1)
         IN  IF is_string(first)
                 THEN BOk(Append(rest, VString(IF Len(first.s) > 0 THEN Tail(first.s) ELSE <<>>)))
             ELSE IF is_list(first)
                 THEN BOk(Append(rest, VList(IF Len(first.l) > 0 THEN Tail(first.l) ELSE <<>>)))
             ELSE BErr(rest)

car(stack) ==
    IF Len(stack) = 0 THEN BPanic(<<>>)
    ELSE LET first == Top(stack)
             rest == Drop(stack, 1)
         IN  IF is_string(first)
                 THEN BOk(Append(rest, VString(IF Len(first.s) > 0 THEN <<Head(first.s)>> ELSE <<>>)))
             ELSE IF is_list(first)
                 THEN BOk(Append(rest, IF Len(first.l) > 0 THEN Head(first.l) ELSE VList(<<>>)))
             ELSE BErr(rest)

\* the intrinsics the model executes; the others (string and the file
\* intrinsics, which wrap system calls) are outside it
ModelledBuiltins ==
    {PLUS, MINUS, TIMES, DIVIDE, EQUALS, APPEND, LIST_NAME, NIL_P, CDR, CAR}

builtin(name, stack) ==
    CASE name \in {PLUS, MINUS, TIMES, DIVIDE} -> arith(name, stack)
      [] name = EQUALS -> equals(stack)
      [] name = APPEND -> append(stack)
      [] name = LIST_NAME -> list(stack)
      [] name = NIL_P -> is_nil(stack)
      [] name = CDR -> cdr(stack)
      [] name = CAR -> car(stack)
      [] OTHER -> [st |-> "external", stack |-> stack]

----------------------------------------------------------------------------
\* VM (vm.rs)

\* a VarTable is a function from names to values
\* get_var searching from the outermost table inwards
get_var_outermost(stack, name) ==
    LET hits == {i \in 1..Len(stack) : name \in DOMAIN stack[i]}
    IN  IF hits = {} THEN NoValue
        ELSE stack[CHOOSE i \in hits : \A j \in hits : i <= j][name]

get_var(stack, name) ==
    LET hits == {i \in 1..Len(stack) : name \in DOMAIN stack[i]}
    IN  IF hits = {} THEN NoValue
        ELSE stack[CHOOSE i \in hits : \A j \in hits : j <= i][name]

has_var(stack, name) == \E i \in 1..Len(stack) : name \in DOMAIN stack[i]

\* set_var writing the innermost table that already binds the name
set_var_where_bound(stack, name, value) ==
    LET hits == {i \in 1..Len(stack) : name \in DOMAIN stack[i]}
        at == IF hits = {} THEN Len(stack)
              ELSE CHOOSE i \in hits : \A j \in hits : j <= i
    IN  [stack EXCEPT ![at] =
            [k \in DOMAIN stack[at] \cup {name} |->
                IF k = name THEN value ELSE stack[at][k]]]

\* set_var: insert into the innermost table
set_var(stack, name, value) ==
    [stack EXCEPT ![Len(stack)] =
        [k \in DOMAIN stack[Len(stack)] \cup {name} |->
            IF k = name THEN value ELSE stack[Len(stack)][k]]]

has_compiled_function(name) == name \in DOMAIN fun_bytecode
has_function(name) == has_fun(fun_table, name) \/ has_compiled_function(name)

\* one invocation of VM::run: its instruction list, the position of the
\* `for` loop, the skip counter; base is the depth of var_stack before the
\* call and executed the positions whose instruction was dispatched
Frame(code, base) ==
    [code |-> code, ip |-> 1, skip |-> 0, base |-> base, executed |-> {}]

cur == frames[Len(frames)]
instr == cur.code[cur.ip]
AtInstr(op) ==
    /\ vm_status = "running"
    /\ cur.ip <= Len(cur.code)
    /\ cur.skip = 0
    /\ instr.op = op

\* the frames after the current instruction was dispatched, with skip set
Advance(skip) ==
    [frames EXCEPT ![Len(frames)] =
        [@ EXCEPT !.ip = @ + 1, !.skip = skip, !.executed = @ \cup {cur.ip}]]

\* main: the tree is compiled before the VM is made (main.rs 156-173)
Compile ==
    /\ vm_status = "new"
    /\ LET r == to_bytecode(fun_table, ast)
       IN  /\ bytecode' = r
           /\ vm_status' = IF r.st = "ok" THEN "compiled"
                           ELSE IF r.st = "err" THEN "compile_error"
                           ELSE "compile_panic"
    /\ UNCHANGED <<ast, fun_table, frames, var_stack, value_stack,
                   fun_bytecode, fun_stack, new_count, pop_count>>
    /\ UNCHANGED <<type_vars, front_vars>>

\* entry of the outermost VM::run: one scope frame is pushed
Run ==
    /\ vm_status = "compiled"
    /\ frames' = <<Frame(bytecode.code, Len(var_stack))>>
    /\ var_stack' = Append(var_stack, <<>>)
    /\ vm_status' = "running"
    /\ UNCHANGED <<ast, fun_table, bytecode, value_stack, fun_bytecode,
                   fun_stack, new_count, pop_count>>
    /\ UNCHANGED <<type_vars, front_vars>>

\* the head of the loop body: a positive skip counter swallows the instruction
SkipInstr ==
    /\ vm_status = "running"
    /\ cur.ip <= Len(cur.code)
    /\ cur.skip > 0
    /\ frames' = [frames EXCEPT ![Len(frames)] =
                    [@ EXCEPT !.ip = @ + 1, !.skip = @ - 1]]
    /\ UNCHANGED <<ast, fun_table, bytecode, var_stack, value_stack,
                   fun_bytecode, fun_stack, vm_status, new_count, pop_count>>
    /\ UNCHANGED <<type_vars, front_vars>>

\* CallUser that runs the compiled body without keeping it
CallUser_not_caching(fname) ==
    LET r == IF has_compiled_function(fname) THEN Ok(fun_bytecode[fname])
             ELSE compile_function(fun_table, get_fun(fun_table, fname))
    IN  IF r.st # "ok"
        THEN /\ vm_status' = IF r.st = "err" THEN "err" ELSE "panic"
             /\ UNCHANGED <<frames, var_stack, value_stack, fun_bytecode, fun_stack>>
        ELSE /\ fun_stack' = Append(fun_stack, fname)
             /\ frames' = Append(frames, Frame(r.code, Len(var_stack)))
             /\ var_stack' = Append(var_stack, <<>>)
             /\ UNCHANGED <<value_stack, vm_status, fun_bytecode>>

\* Call of a user function: lazy compile, then the nested run is entered
CallUser(fname) ==
    LET r == IF has_compiled_function(fname) THEN Ok(fun_bytecode[fname])
             ELSE compile_function(fun_table, get_fun(fun_table, fname))
    IN  IF r.st # "ok"
        THEN /\ vm_status' = IF r.st = "err" THEN "err" ELSE "panic"
             /\ UNCHANGED <<frames, var_stack, value_stack, fun_bytecode, fun_stack>>
        ELSE /\ fun_bytecode' =
                    [k \in DOMAIN fun_bytecode \cup {fname} |->
                        IF k \in DOMAIN fun_bytecode THEN fun_bytecode[k] ELSE r.code]
             /\ fun_stack' = Append(fun_stack, fname)
             /\ frames' = Append(frames, Frame(r.code, Len(var_stack)))
             /\ var_stack' = Append(var_stack, <<>>)
             /\ UNCHANGED <<value_stack, vm_status>>

\* CallBuiltin going on with the next instruction after an Err of the intrinsic
CallBuiltin_swallowing(fname) ==
    LET r == builtin(fname, value_stack)
    IN  /\ value_stack' = r.stack
        /\ IF r.st \in {"ok", "err"}
           THEN /\ frames' = Advance(0)
                /\ UNCHANGED <<fun_stack, vm_status>>
           ELSE /\ fun_stack' = Append(fun_stack, fname)
                /\ vm_status' = r.st
                /\ UNCHANGED frames
        /\ UNCHANGED <<var_stack, fun_bytecode>>

\* Call of an intrinsic: it runs to its end inside the instruction
CallBuiltin(fname) ==
    LET r == builtin(fname, value_stack)
    IN  /\ value_stack' = r.stack
        /\ IF r.st = "ok"
           THEN /\ frames' = Advance(0)
                /\ UNCHANGED <<fun_stack, vm_status>>
           ELSE /\ fun_stack' = Append(fun_stack, fname)
                /\ vm_status' = r.st
                /\ UNCHANGED frames
        /\ UNCHANGED <<var_stack, fun_bytecode>>

ExecCall ==
    /\ AtInstr("Call")
    /\ has_function(instr.name) => Len(frames) < MaxCallDepth
    /\ IF has_function(instr.name) THEN CallUser(instr.name)
       ELSE IF instr.name \in BUILTIN_FUNCTIONS THEN CallBuiltin(instr.name)
       ELSE /\ vm_status' = "err"
            /\ UNCHANGED <<frames, var_stack, value_stack, fun_bytecode, fun_stack>>
    /\ UNCHANGED <<ast, fun_table, bytecode, new_count, pop_count>>
    /\ UNCHANGED <<type_vars, front_vars>>

ExecPush ==
    /\ AtInstr("Push")
    /\ IF instr.val.t = "Identifier" /\ ~has_var(var_stack, instr.val.s)
       THEN /\ vm_status' = "err"
            /\ UNCHANGED <<frames, value_stack>>
       ELSE /\ value_stack' = Append(value_stack,
                    IF instr.val.t = "Identifier" THEN get_var(var_stack, instr.val.s)
                    ELSE instr.val)
            /\ frames' = Advance(0)
            /\ UNCHANGED vm_status
    /\ UNCHANGED <<ast, fun_table, bytecode, var_stack, fun_bytecode,
                   fun_stack, new_count, pop_count>>
    /\ UNCHANGED <<type_vars, front_vars>>

ExecPop ==
    /\ AtInstr("Pop")
    /\ IF Len(value_stack) = 0 \/ Len(var_stack) = 0
       THEN /\ vm_status' = "panic"
            /\ value_stack' = IF Len(value_stack) = 0 THEN value_stack
                              ELSE Drop(value_stack, 1)
            /\ UNCHANGED <<frames, var_stack>>
       ELSE /\ var_stack' = set_var(var_stack, instr.name, Top(value_stack))
            /\ value_stack' = Drop(value_stack, 1)
            /\ frames' = Advance(0)
            /\ UNCHANGED vm_status
    /\ UNCHANGED <<ast, fun_table, bytecode, fun_bytecode, fun_stack,
                   new_count, pop_count>>
    /\ UNCHANGED <<type_vars, front_vars>>

ExecLoad ==
    /\ AtInstr("Load")
    /\ IF ~has_var(var_stack, instr.name)
       THEN /\ vm_status' = "err"
            /\ UNCHANGED <<frames, value_stack>>
       ELSE /\ value_stack' = Append(value_stack, get_var(var_stack, instr.name))
            /\ frames' = Advance(0)
            /\ UNCHANGED vm_status
    /\ UNCHANGED <<ast, fun_table, bytecode, var_stack, fun_bytecode,
                   fun_stack, new_count, pop_count>>
    /\ UNCHANGED <<type_vars, front_vars>>

ExecStore ==
    /\ AtInstr("Store")
    /\ IF Len(var_stack) = 0
       THEN /\ vm_status' = "panic"
            /\ UNCHANGED <<frames, var_stack>>
       ELSE /\ var_stack' = set_var(var_stack, instr.name, instr.val)
            /\ frames' = Advance(0)
            /\ UNCHANGED vm_status
    /\ UNCHANGED <<ast, fun_table, bytecode, value_stack, fun_bytecode,
                   fun_stack, new_count, pop_count>>
    /\ UNCHANGED <<type_vars, front_vars>>

ExecNewVarStack ==
    /\ AtInstr("NewVarStack")
    /\ var_stack' = Append(var_stack, <<>>)
    /\ frames' = Advance(0)
    /\ new_count' = new_count + 1
    /\ UNCHANGED <<ast, fun_table, bytecode, value_stack, fun_bytecode,
                   fun_stack, vm_status, pop_count>>
    /\ UNCHANGED <<type_vars, front_vars>>

ExecPopVarStack ==
    /\ AtInstr("PopVarStack")
    /\ IF Len(var_stack) = 0
       THEN /\ vm_status' = "panic"
            /\ UNCHANGED <<frames, var_stack, pop_count>>
       ELSE /\ var_stack' = Drop(var_stack, 1)
            /\ frames' = Advance(0)
            /\ pop_count' = pop_count + 1
            /\ UNCHANGED vm_status
    /\ UNCHANGED <<ast, fun_table, bytecode, value_stack, fun_bytecode,
                   fun_stack, new_count>>
    /\ UNCHANGED <<type_vars, front_vars>>

ExecSkip ==
    /\ AtInstr("Skip")
    /\ frames' = Advance(instr.n)
    /\ UNCHANGED <<ast, fun_table, bytecode, var_stack, value_stack,
                   fun_bytecode, fun_stack, vm_status, new_count, pop_count>>
    /\ UNCHANGED <<type_vars, front_vars>>

\* Falsy with the empty String taken for true
Falsy_without_empty_string(v) ==
    \/ v.t = "Number" /\ v.n = 0
    \/ v.t = "List" /\ Len(v.l) = 0
    \/ v.t = "Boolean" /\ v.n = 0

\* the values SkipFalse takes for false
Falsy(v) ==
    \/ v.t = "Number" /\ v.n = 0
    \/ v.t = "String" /\ Len(v.s) = 0
    \/ v.t = "List" /\ Len(v.l) = 0
    \/ v.t = "Boolean" /\ v.n = 0

ExecSkipFalse ==
    /\ AtInstr("SkipFalse")
    /\ IF Len(value_stack) = 0
       THEN /\ vm_status' = "panic"
            /\ UNCHANGED <<frames, value_stack>>
       ELSE /\ value_stack' = Drop(value_stack, 1)
            /\ IF Top(value_stack).t \in {"Number", "String", "List", "Boolean"}
               THEN /\ frames' = Advance(IF Falsy(Top(value_stack)) THEN instr.n ELSE 0)
                    /\ UNCHANGED vm_status
               ELSE /\ vm_status' = "err"
                    /\ UNCHANGED frames
    /\ UNCHANGED <<ast, fun_table, bytecode, var_stack, fun_bytecode,
                   fun_stack, new_count, pop_count>>
    /\ UNCHANGED <<type_vars, front_vars>>

\* the end of the `for` loop: run pops one scope frame and returns Ok; a
\* nested run returns into the Call of its caller
RunReturn ==
    /\ vm_status = "running"
    /\ cur.ip > Len(cur.code)
    /\ IF Len(var_stack) = 0
       THEN /\ vm_status' = "panic"
            /\ UNCHANGED <<frames, var_stack, fun_stack>>
       ELSE /\ var_stack' = Drop(var_stack, 1)
            /\ IF Len(frames) = 1
               THEN /\ vm_status' = "ok"
                    /\ UNCHANGED <<frames, fun_stack>>
               ELSE /\ frames' = [Drop(frames, 1) EXCEPT ![Len(frames) - 1] =
                            [@ EXCEPT !.ip = @ + 1,
                                      !.executed = @ \cup {frames[Len(frames) - 1].ip}]]
                    /\ fun_stack' = Drop(fun_stack, 1)
                    /\ UNCHANGED vm_status
    /\ UNCHANGED <<ast, fun_table, bytecode, value_stack, fun_bytecode,
                   new_count, pop_count>>
    /\ UNCHANGED <<type_vars, front_vars>>

----------------------------------------------------------------------------
\* Input programs: pruned trees as the parser and preprocessor hand them on

SeqsUpTo(S, n) == UNION {[1..k -> S] : k \in 0..n}

Atoms == {Number(0), Number(1), Identifier(X)}

CallForms(S) ==
    {Expr(<<Identifier(h)>> \o args) :
        h \in {PLUS, EQUALS, F, CAR, LIST_NAME}, args \in SeqsUpTo(S, MaxArgs)}
IfForms(C, S) ==
    {Expr(<<Identifier(IF_NAME), c, t, e>>) : c \in C, t \in S, e \in S}
LetForms(V, S) ==
    {Expr(<<Identifier(LET_NAME), Expr(<<Expr(<<Identifier(X), v>>)>>), b>>) :
        v \in V, b \in S}
    \cup {Expr(<<Identifier(LET_NAME), Expr(<<>>), b>>) : b \in S}

\* a few nested forms that stand as operands of the outer forms
Operands ==
    Atoms \cup
    {Expr(<<Identifier(IF_NAME), Number(1), Number(5), Number(6)>>),
     Expr(<<Identifier(IF_NAME), Number(0), Number(5), Number(6)>>),
     Expr(<<Identifier(PLUS), Number(1), Number(2)>>),
     Expr(<<Identifier(LET_NAME), Expr(<<Expr(<<Identifier(X), Number(7)>>)>>),
            Identifier(X)>>),
     Expr(<<>>)}

TopForms ==
    Atoms \cup CallForms(Operands) \cup IfForms(Atoms, Operands)
    \cup LetForms(Operands, Operands)

\* what may follow a form at top level
Followers ==
    {Number(9),
     Expr(<<Identifier(LET_NAME), Expr(<<>>), Number(9)>>)}

Programs ==
    {<<n>> : n \in TopForms}
    \cup {<<n, m>> : n \in IfForms(Atoms, Operands) \cup LetForms(Operands, Operands),
                     m \in Followers}

A == <<"a">>
B == <<"b">>

\* function tables of the VM runs
FunTables ==
    {<<>>,
     <<Function(F, <<Param(A, FALSE), Param(B, FALSE)>>,
                <<Expr(<<Identifier(MINUS), Identifier(A), Identifier(B)>>)>>)>>,
     <<Function(F, <<Param(A, FALSE), Param(B, TRUE)>>, <<Identifier(A)>>)>>,
     <<Function(CAR, <<Param(A, FALSE)>>, <<Identifier(A)>>)>>}

TypeIdle ==
    /\ type_mappings = <<>>
    /\ type_table = <<>>
    /\ proto_types = <<>>
    /\ last_size = 0
    /\ gl_pc = "idle"
    /\ gl_result = [st |-> "none", at |-> [old |-> <<>>, new |-> <<>>]]
    /\ passes = 0
    /\ self_table = <<>>
    /\ merges = 0

\* Option<char>::None
NoChar == "None"

\* no source is being read
FrontIdle ==
    /\ source = <<>>
    /\ lexer = [rest |-> <<>>, curr |-> NoChar, peek |-> NoChar]
    /\ tokens = <<>>
    /\ lex_status = "ok"
    /\ parse_result = [st |-> "none", tree |-> <<>>, msg |-> ""]
    /\ pp = [status |-> "idle", runs |-> 0, input |-> <<>>, first |-> <<>>]
    /\ reprinted = [done |-> FALSE, results |-> <<>>]

\* VM::new, with the tree and the tables of main
VMNew ==
    /\ bytecode = Ok(<<>>)
    /\ frames = <<>>
    /\ var_stack = <<>>
    /\ value_stack = <<>>
    /\ fun_bytecode = <<>>
    /\ fun_stack = <<>>
    /\ vm_status = "new"
    /\ new_count = 0
    /\ pop_count = 0

G == <<"g">>
H == <<"h">>
K == <<"k">>
V == <<"v">>
W == <<"w">>
U == <<"u">>
O == <<"o">>
M == <<"m">>
Z == <<"z">>
S_TEXT == <<"s">>
T_TEXT == <<"t">>

\* the function table of the further programs: g reads a name it does not
\* bind, h fails in an intrinsic, the body of k does not compile, v calls k,
\* w calls h, u calls itself, o has an optional parameter, m leaves two values
\* and z none
CaseFuns ==
    <<Function(G, <<>>, <<Identifier(X)>>),
      Function(H, <<>>, <<Expr(<<Identifier(PLUS), Number(1), StringLit(S_TEXT)>>), Number(8)>>),
      Function(K, <<>>, <<Expr(<<Number(1)>>)>>),
      Function(V, <<>>, <<Expr(<<Identifier(K)>>), Number(8)>>),
      Function(W, <<Param(A, FALSE)>>, <<Expr(<<Identifier(H)>>), Number(8)>>),
      Function(U, <<Param(A, FALSE)>>,
               <<Expr(<<Identifier(IF_NAME), Identifier(A), Number(5),
                        Expr(<<Identifier(U), Number(1)>>)>>)>>),
      Function(O, <<Param(A, FALSE), Param(B, TRUE)>>, <<Identifier(A)>>),
      Function(M, <<>>, <<Number(1), Number(2)>>),
      Function(Z, <<>>, <<>>)>>

\* conditions of every kind of value
Conditions ==
    {Number(2), StringLit(<<>>), StringLit(S_TEXT), Expr(<<>>),
     Expr(<<Identifier(LIST_NAME), Number(1)>>),
     Expr(<<Identifier(EQUALS), Number(0), Number(0)>>),
     Expr(<<Identifier(EQUALS), Number(0), Number(1)>>),
     Expr(<<Identifier(LET_NAME), Expr(<<>>)>>)}

Binding(name, value) == Expr(<<Identifier(name), value>>)

\* bodies of a let: an atom, the bound name, an `if` of either outcome
LetBodies ==
    {Number(5), Identifier(X),
     Expr(<<Identifier(IF_NAME), Number(1), Number(5), Number(6)>>),
     Expr(<<Identifier(IF_NAME), Number(0), Number(5), Number(6)>>),
     Expr(<<Identifier(IF_NAME), Identifier(X), Identifier(X), Number(6)>>)}

\* further programs, each run with CaseFuns
CasePrograms ==
    {<<Expr(<<Identifier(IF_NAME), c, Number(5), Number(6)>>)>> : c \in Conditions}
    \cup
    {\* a variable that holds an Identifier value as condition
     <<Expr(<<Identifier(LET_NAME), Expr(<<Binding(X, Identifier(Y))>>),
              Expr(<<Identifier(IF_NAME), Identifier(X), Number(5), Number(6)>>)>>)>>,
     \* a condition that leaves no value, inside a list form
     <<Expr(<<Identifier(LIST_NAME),
              Expr(<<Identifier(IF_NAME), Expr(<<Identifier(LET_NAME), Expr(<<>>)>>),
                     Number(5), Number(6)>>)>>)>>,
     \* list forms
     <<Expr(<<Identifier(LIST_NAME), Number(1), StringLit(S_TEXT),
              Expr(<<Identifier(LIST_NAME), Number(2)>>)>>)>>,
     <<Expr(<<Identifier(CAR),
              Expr(<<Identifier(LIST_NAME), Number(1), Number(2), Number(3)>>)>>)>>,
     <<Number(4), Expr(<<Identifier(LIST_NAME), Number(1), Number(2)>>)>>,
     <<Number(4), Expr(<<Identifier(LIST_NAME)>>)>>,
     \* append
     <<Expr(<<Identifier(APPEND), StringLit(S_TEXT), StringLit(T_TEXT)>>)>>,
     <<Expr(<<Identifier(APPEND), Expr(<<Identifier(LIST_NAME), Number(1)>>),
              Expr(<<Identifier(LIST_NAME), Number(2)>>)>>)>>,
     <<Expr(<<Identifier(APPEND), StringLit(S_TEXT),
              Expr(<<Identifier(LIST_NAME), Number(2)>>)>>)>>,
     <<Number(4), Expr(<<Identifier(APPEND), Number(1), StringLit(S_TEXT)>>)>>,
     \* arithmetic on two variables of an enclosing let
     <<Expr(<<Identifier(LET_NAME),
              Expr(<<Binding(X, Number(6)), Binding(Y, Number(2))>>),
              Expr(<<Identifier(MINUS), Identifier(X), Identifier(Y)>>)>>)>>,
     <<Expr(<<Identifier(LET_NAME),
              Expr(<<Binding(X, Number(6)), Binding(Y, Number(2))>>),
              Expr(<<Identifier(DIVIDE), Identifier(X), Identifier(Y)>>)>>)>>,
     <<Expr(<<Identifier(TIMES), Number(6), Number(2)>>)>>,
     <<Number(4), Expr(<<Identifier(MINUS), Number(1), StringLit(S_TEXT)>>)>>,
     <<Number(4), Expr(<<Identifier(DIVIDE), Expr(<<>>), Number(1)>>)>>,
     \* calls of the functions of CaseFuns
     <<Expr(<<Identifier(LET_NAME), Expr(<<Binding(X, Number(7))>>),
              Expr(<<Identifier(G)>>)>>)>>,
     <<Expr(<<Identifier(G)>>), Number(9)>>,
     <<Expr(<<Identifier(H)>>), Number(9)>>,
     <<Expr(<<Identifier(K)>>), Number(9)>>,
     <<Expr(<<Identifier(V)>>), Number(9)>>,
     <<Expr(<<Identifier(W), Number(1)>>), Number(9)>>,
     <<Expr(<<Identifier(W), Expr(<<Identifier(K)>>)>>), Number(9)>>,
     \* a function called twice, and a function that calls itself
     <<Expr(<<Identifier(U), Number(1)>>), Expr(<<Identifier(U), Number(1)>>)>>,
     <<Expr(<<Identifier(U), Number(0)>>), Expr(<<Identifier(U), Number(0)>>)>>,
     \* calls of user functions above a value
     <<Number(4), Expr(<<Identifier(O), Number(1), Number(2)>>)>>,
     <<Number(4), Expr(<<Identifier(O), Number(1)>>)>>,
     <<Number(4), Expr(<<Identifier(U), Number(0)>>)>>,
     <<Number(4), Expr(<<Identifier(G)>>)>>,
     \* list forms over calls that leave no value, one value, two values
     <<Expr(<<Identifier(LIST_NAME), Expr(<<Identifier(Z)>>)>>)>>,
     <<Expr(<<Identifier(LIST_NAME), Expr(<<Identifier(Z)>>), Number(3)>>)>>,
     <<Expr(<<Identifier(LIST_NAME), Expr(<<Identifier(U), Number(1)>>), Number(3)>>)>>,
     <<Expr(<<Identifier(LIST_NAME), Expr(<<Identifier(M)>>)>>)>>,
     <<Expr(<<Identifier(LIST_NAME), Number(3),
              Expr(<<Identifier(LIST_NAME), Expr(<<Identifier(M)>>)>>)>>)>>}
    \cup
    \* a name read after the let that bound it, at top level and inside a let
    \* that binds the same name
    {<<Expr(<<Identifier(LET_NAME), Expr(<<Binding(X, Number(7))>>), body>>),
       Identifier(X)>> : body \in LetBodies}
    \cup
    {<<Expr(<<Identifier(LET_NAME), Expr(<<Binding(X, Number(1))>>),
              Expr(<<Identifier(LET_NAME), Expr(<<Binding(X, Number(7))>>), body>>),
              Identifier(X)>>)>> : body \in LetBodies}

Init ==
    /\ \/ ast \in Programs /\ fun_table \in FunTables
       \/ ast \in CasePrograms /\ fun_table = CaseFuns
    /\ VMNew
    /\ TypeIdle
    /\ FrontIdle

Next ==
    \/ Compile
    \/ Run
    \/ SkipInstr
    \/ ExecCall
    \/ ExecPush
    \/ ExecPop
    \/ ExecLoad
    \/ ExecStore
    \/ ExecNewVarStack
    \/ ExecPopVarStack
    \/ ExecSkip
    \/ ExecSkipFalse
    \/ RunReturn

Spec == Init /\ [][Next]_vars

----------------------------------------------------------------------------
\* Claims about the compiler and the VM

\* the frames in which the SkipFalse at position i was dispatched
IfSites == {<<k, i>> \in (1..Len(frames)) \X (1..20) :
               /\ i \in frames[k].executed
               /\ frames[k].code[i].op = "SkipFalse"}
\* position of the Skip that closes the then-branch of the `if` at i
SkipAt(k, i) == i + frames[k].code[i].n
\* position of the instruction that follows the else-branch
AfterIf(k, i) == SkipAt(k, i) + frames[k].code[SkipAt(k, i)].n

\* C1: once the SkipFalse of an `if` has run, exactly one of the branches T
\* and E is entered, and the instruction that follows E in the enclosing
\* sequence is executed, not skipped, whichever branch was chosen.
C1_IfRunsOneBranchAndResumesAfterE ==
    \A site \in IfSites :
        LET k == site[1]
            i == site[2]
            f == frames[k]
        IN  /\ f.ip > SkipAt(k, i) + 1 =>
                ((i + 1 \in f.executed) # (SkipAt(k, i) + 1 \in f.executed))
            /\ (f.ip > AfterIf(k, i) /\ AfterIf(k, i) <= Len(f.code)) =>
                AfterIf(k, i) \in f.executed

\* C2: when run returns Ok, as many PopVarStack as NewVarStack instructions
\* have been executed.
C2_VarStackPairsBalanced ==
    vm_status = "ok" => new_count = pop_count

\* C3: the scope stack is non-empty whenever an instruction executes, and a
\* run that reaches its end holds exactly the frame it pushed on entry, so
\* that after its pop the depth is the one before the call.
C3_ScopeStackDiscipline ==
    /\ (vm_status = "running" /\ cur.ip <= Len(cur.code) /\ cur.skip = 0)
            => Len(var_stack) > 0
    /\ (vm_status = "running" /\ cur.ip > Len(cur.code))
            => Len(var_stack) = cur.base + 1
    /\ vm_status = "ok" => Len(var_stack) = frames[1].base

\* values an intrinsic pops without looking at the stack first
PopsOf(name) ==
    IF name \in {PLUS, MINUS, TIMES, DIVIDE, EQUALS, APPEND} THEN 2 ELSE 1

\* C4: no instruction that pops (Pop, SkipFalse, an intrinsic invoked by
\* Call) executes while the value stack holds too few values for it.
C4_NoPopFromEmptyValueStack ==
    (vm_status = "running" /\ cur.ip <= Len(cur.code) /\ cur.skip = 0) =>
        /\ instr.op \in {"Pop", "SkipFalse"} => Len(value_stack) > 0
        /\ (instr.op = "Call" /\ ~has_function(instr.name)
                /\ instr.name \in BUILTIN_FUNCTIONS)
              => Len(value_stack) >= PopsOf(instr.name)

\* C5: for a top-level call (f a1 ... an) of a user function with n
\* parameters, the k-th Pop of the prelude binds parameter k to argument
\* n+1-k (stated for the arguments that are number literals, whose value is
\* known from the tree).
C5_PreludeBindsArgumentsInReverse ==
    (/\ Len(ast) = 1 /\ is_expr(ast[1]) /\ Len(ast[1].c) > 0
     /\ ast[1].c[1] = Identifier(F) /\ has_fun(fun_table, F)
     /\ Len(frames) = 2)
    => LET args == Tail(ast[1].c)
           params == get_fun(fun_table, F).params
           n == Len(params)
       IN  Len(args) = n =>
             \A k \in 1..n :
                (frames[2].ip > k /\ args[n + 1 - k].k = "Number") =>
                    /\ params[k].name \in DOMAIN var_stack[Len(var_stack)]
                    /\ var_stack[Len(var_stack)][params[k].name]
                            = to_value(args[n + 1 - k])

----------------------------------------------------------------------------
\* The arity check alone: one user function, one call of it

\* required^m optional^k
ParamList(m, k) == [i \in 1..(m + k) |-> Param(<<"p", ToString(i)>>, i > m)]

\* let forms without a binding list, with a binding list that is no
\* expression, with a binding that is no list of an identifier and one item
MalformedLets ==
    {Expr(<<Identifier(LET_NAME)>> \o rest) :
        rest \in {<<>>,
                  <<Number(1)>>,
                  <<Identifier(X), Number(1)>>,
                  <<StringLit(X), Number(1)>>,
                  <<Expr(<<Number(1)>>), Number(1)>>,
                  <<Expr(<<Identifier(X)>>), Number(1)>>,
                  <<Expr(<<Expr(<<>>)>>), Number(1)>>,
                  <<Expr(<<Expr(<<Identifier(X)>>)>>), Number(1)>>,
                  <<Expr(<<Expr(<<Identifier(X), Number(1), Number(2)>>)>>), Number(1)>>,
                  <<Expr(<<Expr(<<Number(1), Number(2)>>)>>), Number(1)>>,
                  <<Expr(<<Expr(<<Identifier(X), Number(1)>>), Identifier(Y)>>), Number(1)>>}}

\* if forms with 0, 1, 2 and 4 operands
MalformedIfs ==
    {Expr(<<Identifier(IF_NAME)>> \o rest) :
        rest \in {s \in SeqsUpTo({Number(1)}, 4) : Len(s) # 3}}

CompileInit ==
    /\ \/ \E name \in {F, CAR}, m \in 0..MaxRequired, k \in 0..MaxOptional :
            /\ fun_table = <<Function(name, ParamList(m, k), <<>>)>>
            /\ \E args \in SeqsUpTo({Number(1), Identifier(X)},
                                    MaxRequired + MaxOptional + 1) :
                   ast = <<Expr(<<Identifier(name)>> \o args)>>
       \/ /\ fun_table = <<>>
          /\ \E form \in MalformedLets \cup MalformedIfs :
                \/ ast = <<form>>
                \/ ast = <<Expr(<<Identifier(PLUS), Number(1), form>>)>>
    /\ VMNew
    /\ TypeIdle
    /\ FrontIdle

CompileSpec == CompileInit /\ [][Compile]_vars

\* C6: a call of a user function with m required and k optional parameters
\* compiles iff its argument count c satisfies m <= c <= m+k, and is refused
\* with 'no variant of function X takes N arguments' otherwise, whatever the
\* name of the function.
C6_ArityCheckedForEveryUserFunction ==
    (vm_status # "new" /\ has_fun(fun_table, ast[1].c[1].s)) =>
        LET fun == get_fun(fun_table, ast[1].c[1].s)
            c == Len(ast[1].c) - 1
            m == Cardinality({i \in 1..Len(fun.params) : ~fun.params[i].optional})
            k == Cardinality({i \in 1..Len(fun.params) : fun.params[i].optional})
        IN  /\ bytecode.st = "ok" <=> (m <= c /\ c <= m + k)
            /\ bytecode.st # "ok" =>
                   bytecode.err = "no variant of function takes N arguments"

----------------------------------------------------------------------------
\* Types and the type table (internal.rs)

INT_TYPE == <<":", "i", "n", "t">>
STRING_TYPE == <<":", "s", "t", "r", "i", "n", "g">>
LISTY_TYPE == <<":", "l", "i", "s", "t", "y">>

Type(k, name, alias) == [k |-> k, name |-> name, alias |-> alias]
TNumber == Type("Number", INT_TYPE, <<>>)
TStr == Type("Str", STRING_TYPE, <<>>)
TListy == Type("Listy", LISTY_TYPE, <<>>)
TypeDef(name, alias) == Type("TypeDef", name, alias)
\* Option::None, and a lookup whose recursion does not end
NoType == Type("None", <<>>, <<>>)
Diverges == Type("Diverges", <<>>, <<>>)

\* TypeTable::get_type: the first entry with the name, aliases followed.
\* A chain of more than Len(types) aliases repeats an entry: the recursion
\* of the source would not return.
RECURSIVE get_type_from(_, _, _)
get_type_from(types, type_name, fuel) ==
    LET hits == {i \in 1..Len(types) : types[i].name = type_name}
    IN  IF hits = {} THEN NoType
        ELSE LET t == types[CHOOSE i \in hits : \A j \in hits : i <= j]
             IN  IF t.k # "TypeDef" THEN t
                 ELSE IF fuel = 0 THEN Diverges
                 ELSE get_type_from(types, t.alias, fuel - 1)

get_type(types, type_name) == get_type_from(types, type_name, Len(types))
has_type(types, type_name) == get_type(types, type_name).k # "None"

\* add_typedef with the two names of the TypeDef exchanged
add_typedef_swapped(types, type_name, target) ==
    Append(types, TypeDef(get_type(types, target).name, type_name))

add_typedef(types, type_name, target) ==
    Append(types, TypeDef(type_name, get_type(types, target).name))

\* merge appending every entry of the other table, the filter on has_type left out
merge_appending(self, other) ==
    LET Conflict(t) ==
            LET other_type == get_type(self, t.name)
            IN  /\ other_type.k # "None"
                /\ t.name = other_type.name
                /\ t.k = "TypeDef"
                /\ other_type.k = "TypeDef"
                /\ t.alias # other_type.alias
    IN  IF \E i \in 1..Len(other) : Conflict(other[i])
        THEN [st |-> "err", types |-> self]
        ELSE [st |-> "ok", types |-> self \o other]

\* TypeTable::merge: [st, types]
merge(self, other) ==
    LET Conflict(t) ==
            LET other_type == get_type(self, t.name)
            IN  /\ other_type.k # "None"
                /\ t.name = other_type.name
                /\ t.k = "TypeDef"
                /\ other_type.k = "TypeDef"
                /\ t.alias # other_type.alias
        Keep(x) == ~has_type(self, x.name)
    IN  IF \E i \in 1..Len(other) : Conflict(other[i])
        THEN [st |-> "err", types |-> self]
        ELSE [st |-> "ok", types |-> self \o SelectSeq(other, Keep)]

----------------------------------------------------------------------------
\* TypeGatherer::gather_and_link (gatherer.rs)

Mapping(old, new) == [old |-> old, new |-> new]
NoMapping == Mapping(<<>>, <<>>)
GResult(st, at) == [st |-> st, at |-> at]

\* the loop over type_mappings (386-402): [st, table, proto, at]
RECURSIVE first_pass(_, _, _)
first_pass(table, mappings, proto) ==
    IF mappings = <<>>
    THEN [st |-> "ok", table |-> table, proto |-> proto, at |-> NoMapping]
    ELSE LET d == Head(mappings)
         IN  IF has_type(table, d.new)
             THEN IF d.old # get_type(table, d.new).name
                  THEN [st |-> "conflict", table |-> table, proto |-> proto, at |-> d]
                  ELSE first_pass(table, Tail(mappings), proto)
             ELSE IF has_type(table, d.old)
                  THEN first_pass(add_typedef(table, d.new, d.old), Tail(mappings), proto)
             ELSE first_pass(table, Tail(mappings), Append(proto, d))

\* the loop over proto_types (420-432): [st, table, at]
RECURSIVE loop_pass(_, _)
loop_pass(table, proto) ==
    IF proto = <<>> THEN [st |-> "ok", table |-> table, at |-> NoMapping]
    ELSE LET d == Head(proto)
         IN  IF has_type(table, d.new)
             THEN IF d.old # get_type(table, d.new).name
                  THEN [st |-> "conflict", table |-> table, at |-> d]
                  ELSE loop_pass(table, Tail(proto))
             ELSE IF has_type(table, d.old)
                  THEN loop_pass(add_typedef(table, d.new, d.old), Tail(proto))
             ELSE loop_pass(table, Tail(proto))

\* the test that ends the loop with the 'went one cycle' error (409)
NoProgress(last, proto) == last = Len(proto)

\* the filter that drops the pairs whose new name is now in the table (435-439)
StillPending(table, proto) ==
    LET Pending(d) == ~has_type(table, d.new) IN SelectSeq(proto, Pending)

GatherFirstPass ==
    /\ gl_pc = "gather"
    /\ LET r == first_pass(<<TNumber, TStr, TListy>>, type_mappings, <<>>)
       IN  /\ type_table' = r.table
           /\ proto_types' = r.proto
           /\ IF r.st = "ok"
              THEN gl_pc' = "loop" /\ UNCHANGED gl_result
              ELSE gl_pc' = "done" /\ gl_result' = GResult("conflict", r.at)
    /\ last_size' = 0
    /\ passes' = passes + 1
    /\ UNCHANGED <<type_mappings, self_table, merges>>
    /\ UNCHANGED <<vm_vars, front_vars>>

\* one iteration of the `loop` (405-441)
GatherLoop ==
    /\ gl_pc = "loop"
    /\ IF Len(proto_types) = 0
       THEN /\ gl_pc' = "done"
            /\ gl_result' = GResult("ok", NoMapping)
            /\ UNCHANGED <<type_table, proto_types, last_size, passes>>
       ELSE IF NoProgress(last_size, proto_types)
       THEN /\ gl_pc' = "done"
            /\ gl_result' = GResult("no_progress", NoMapping)
            /\ UNCHANGED <<type_table, proto_types, last_size, passes>>
       ELSE LET r == loop_pass(type_table, proto_types)
            IN  /\ type_table' = r.table
                /\ passes' = passes + 1
                /\ IF r.st = "ok"
                   THEN /\ proto_types' = StillPending(r.table, proto_types)
                        /\ last_size' = Len(proto_types')
                        /\ UNCHANGED <<gl_pc, gl_result>>
                   ELSE /\ gl_pc' = "done"
                        /\ gl_result' = GResult("conflict", r.at)
                        /\ UNCHANGED <<proto_types, last_size>>
    /\ UNCHANGED <<type_mappings, self_table, merges>>
    /\ UNCHANGED <<vm_vars, front_vars>>

TA == <<"A">>
TB == <<"B">>
TC == <<"C">>

\* the declarations of a file: (old, new) with old # new (TypeGatherer::visit_expr)
Mappings(olds, news, n) ==
    SeqsUpTo({Mapping(o, w) : o \in olds, w \in news} \ {Mapping(x, x) : x \in olds}, n)

TypeMappings == Mappings({INT_TYPE, STRING_TYPE, TA, TB, TC}, {TA, TB, TC, INT_TYPE}, MaxDecls)
MergeMappings == Mappings({INT_TYPE, STRING_TYPE, TA, TB}, {TA, TB}, MaxMergeDecls)

\* Preprocessor::preprocess_builtins (70-76): the table of the file is merged
\* into the receiving table; the declarations of the next file follow.  An
\* included file's table reaches the includer the same way (gatherer.rs 124),
\* and merging its accumulated table equals merging its tables in turn.
MergeTypes ==
    /\ gl_pc = "done"
    /\ gl_result.st = "ok"
    /\ merges < MaxMerges
    /\ LET r == merge(self_table, type_table)
       IN  IF r.st = "ok"
           THEN /\ self_table' = r.types
                /\ gl_pc' = "gather"
                /\ type_mappings' \in MergeMappings
           ELSE /\ gl_pc' = "merge_error"
                /\ UNCHANGED <<self_table, type_mappings>>
    /\ merges' = merges + 1
    /\ type_table' = <<>>
    /\ proto_types' = <<>>
    /\ last_size' = 0
    /\ passes' = 0
    /\ gl_result' = GResult("none", NoMapping)
    /\ UNCHANGED <<vm_vars, front_vars>>

VMIdle ==
    /\ ast = <<>>
    /\ fun_table = <<>>
    /\ VMNew

TypeStart ==
    /\ type_table = <<>>
    /\ proto_types = <<>>
    /\ last_size = 0
    /\ gl_pc = "gather"
    /\ gl_result = GResult("none", NoMapping)
    /\ passes = 0
    /\ self_table = <<>>
    /\ merges = 0

TypeInit == type_mappings \in TypeMappings /\ TypeStart /\ VMIdle /\ FrontIdle
TypeNext == GatherFirstPass \/ GatherLoop
TypeSpec == TypeInit /\ [][TypeNext]_vars

MergeInit == type_mappings \in MergeMappings /\ TypeStart /\ VMIdle /\ FrontIdle
MergeNext == GatherFirstPass \/ GatherLoop \/ MergeTypes
MergeSpec == MergeInit /\ [][MergeNext]_vars

----------------------------------------------------------------------------
\* Claims about type-alias resolution

Primitives == {INT_TYPE, STRING_TYPE, LISTY_TYPE}
Declared(mappings) == {mappings[i] : i \in 1..Len(mappings)}

\* the names a set of declarations gives a chain to a primitive
RECURSIVE ReachPrimitive(_, _, _)
ReachPrimitive(names, mappings, fuel) ==
    IF fuel = 0 THEN names
    ELSE ReachPrimitive(
            names \cup {d.new : d \in {e \in Declared(mappings) : e.old \in names}},
            mappings, fuel - 1)
Resolvable(mappings) == ReachPrimitive(Primitives, mappings, Len(mappings))

\* every alias chain reaches a primitive and no name is declared twice
WellFormed(mappings) ==
    /\ \A d \in Declared(mappings) : d.old \in Resolvable(mappings)
    /\ \A d \in Declared(mappings) : d.new \notin Primitives
    /\ \A i, j \in 1..Len(mappings) : i # j => mappings[i].new # mappings[j].new

\* a cycle or a target that is never defined
Unresolvable(mappings) ==
    \E d \in Declared(mappings) : d.old \notin Resolvable(mappings)

\* the declarations whose new name has no entry in the table
Unresolved ==
    LET Missing(d) == ~has_type(type_table, d.new)
    IN  SelectSeq(type_mappings, Missing)

\* C7: resolution succeeds for every declaration set whose alias chains all
\* reach a primitive, in any order of the declarations, and the 'went one
\* cycle' error is reported only when a further pass could resolve nothing.
C7_ResolvableChainsSucceedInAnyOrder ==
    gl_pc = "done" =>
        /\ WellFormed(type_mappings) => gl_result.st = "ok"
        /\ gl_result.st = "no_progress" =>
               \A i \in 1..Len(proto_types) :
                    ~has_type(type_table, proto_types[i].old)

\* resolution makes a bounded number of passes, and until it has returned
\* it is at a step that can be taken (GatherFirstPass and GatherLoop have no
\* guard but their position)
ResolutionEnds ==
    /\ passes <= Len(type_mappings) + 1
    /\ gl_pc \in {"gather", "loop", "done"}

\* C8: resolution terminates, and declarations with a cycle or an undefined
\* target end in an error (the 'went one cycle' error, which lists every
\* unresolved alias, or the error of a conflicting redeclaration met first).
C8_CycleYieldsError ==
    /\ ResolutionEnds
    /\ (gl_pc = "done" /\ Unresolvable(type_mappings)) =>
            /\ gl_result.st \in {"no_progress", "conflict"}
            /\ gl_result.st = "no_progress" => proto_types = Unresolved

\* C9: a declaration (old, new) whose new name is already in the table is
\* refused only if new was declared for a different old (or is a primitive):
\* declaring the identical pair again is accepted.
C9_IdenticalRedeclarationAccepted ==
    (gl_pc = "done" /\ gl_result.st = "conflict") =>
        \/ gl_result.at.new \in Primitives
        \/ \E d \in Declared(type_mappings) :
                d.new = gl_result.at.new /\ d.old # gl_result.at.old

\* every TypeDef names a target that is in the table, and every name of the
\* table resolves to a primitive in finitely many steps
TableClosed(types) ==
    \A i \in 1..Len(types) :
        /\ types[i].k = "TypeDef" =>
                \E j \in 1..Len(types) : types[j].name = types[i].alias
        /\ get_type(types, types[i].name).k \in {"Number", "Str", "Listy"}

\* C10: after successful resolution, and after any sequence of merges of
\* tables produced that way, every TypeDef of a table names a target present
\* in the same table and every alias chain ends in a primitive, so get_type
\* returns for every name.
C10_TypeTablesClosed ==
    /\ TableClosed(self_table)
    /\ (gl_pc = "done" /\ gl_result.st = "ok") => TableClosed(type_table)
    /\ \A n \in {INT_TYPE, STRING_TYPE, LISTY_TYPE, TA, TB, TC} :
            get_type(self_table, n).k # "Diverges"

C10_Witness ==
    /\ merges = 2
    /\ \E i, j \in 1..Len(self_table) :
            /\ i < j
            /\ self_table[i] = TypeDef(TA, INT_TYPE)
            /\ self_table[j] = TypeDef(TB, STRING_TYPE)
    /\ gl_pc = "done"
    /\ gl_result.st = "ok"
    /\ Len(type_table) > 3

----------------------------------------------------------------------------
\* Claims about merging tables

\* `other` defines an alias name that `self` defines as an alias of another target
ConflictingAlias(self, other) ==
    \E i \in 1..Len(other), j \in 1..Len(self) :
        /\ other[i].k = "TypeDef"
        /\ self[j].k = "TypeDef"
        /\ other[i].name = self[j].name
        /\ other[i].alias # self[j].alias

\* C11: merging a resolved table that defines an alias name which the
\* receiving table already defines as an alias of a different target is an
\* error.
C11_MergeRejectsConflictingAlias ==
    (gl_pc = "done" /\ gl_result.st = "ok" /\ ConflictingAlias(self_table, type_table))
        => merge(self_table, type_table).st = "err"

----------------------------------------------------------------------------
\* Registration of function descriptors (internal.rs, FunTable)

MaxFuns == 3

\* FunTable::append (204-207) and FunTable::merge (209-212): the descriptors
\* of a file, or of an included file's table, are pushed at the end
append_funs_dropping(funs, more) == funs

append_funs(funs, more) == funs \o more

RegisterFun ==
    /\ Len(fun_table) < MaxFuns
    /\ \E name \in {F, CAR}, m \in 0..MaxRequired :
            fun_table' = append_funs(fun_table, <<Function(name, ParamList(m, 0), <<>>)>>)
    /\ UNCHANGED <<ast, bytecode, frames, var_stack, value_stack, fun_bytecode,
                   fun_stack, vm_status, new_count, pop_count>>
    /\ UNCHANGED <<type_vars, front_vars>>

RegisterInit == VMIdle /\ TypeIdle /\ FrontIdle
RegisterSpec == RegisterInit /\ [][RegisterFun]_vars

\* the descriptor with the name that was registered last
LastRegistered(funs, name) ==
    funs[CHOOSE i \in 1..Len(funs) :
            /\ funs[i].name = name
            /\ \A j \in (i + 1)..Len(funs) : funs[j].name # name]

\* C12: when several descriptors with one name are registered, lookup by
\* name returns the one registered last.
C12_LookupFindsLastRegistered ==
    \A name \in {F, CAR} :
        has_fun(fun_table, name) =>
            get_fun(fun_table, name) = LastRegistered(fun_table, name)

----------------------------------------------------------------------------
\* The lexer (lexer.rs).  Ranges (line and column bookkeeping) are left out:
\* no branch of the lexer or of the parser reads them.

MaxSrc == 4
MaxCalls == 2

\* the characters of the sources of the model, with their code points
Ord == "(" :> 40 @@ ")" :> 41 @@ "1" :> 49 @@ "." :> 46 @@ "n" :> 110 @@
       ";" :> 59 @@ "\"" :> 34 @@ "\\" :> 92 @@ " " :> 32 @@ "\n" :> 10 @@
       "\f" :> 12 @@ "\r" :> 13 @@ "\t" :> 9 @@ "0" :> 48
Alphabet == DOMAIN Ord \ {"\r", "\t", "0"}

Token(t, s, msg) == [t |-> t, s |-> s, msg |-> msg]

\* Lexer::new (158-173)
Lexer_new(source_text) ==
    [rest |-> IF source_text = <<>> THEN <<>> ELSE Tail(source_text),
     curr |-> NoChar,
     peek |-> IF source_text = <<>> THEN NoChar ELSE Head(source_text)]

\* Lexer::next over an iterator that starts again after its end
next_restarting(lx) ==
    [rest |-> IF lx.rest = <<>> THEN <<>> ELSE Tail(lx.rest),
     curr |-> lx.peek,
     peek |-> IF lx.rest = <<>>
              THEN (IF lx.peek = NoChar THEN "n" ELSE NoChar)
              ELSE Head(lx.rest)]

\* Lexer::next (340-348): Chars::next keeps returning None at the end
next(lx) ==
    [rest |-> IF lx.rest = <<>> THEN <<>> ELSE Tail(lx.rest),
     curr |-> lx.peek,
     peek |-> IF lx.rest = <<>> THEN NoChar ELSE Head(lx.rest)]

\* Lexer::skip_whitespace (323-338)
RECURSIVE skip_whitespace(_)
skip_whitespace(self) ==
    CHOOSE result \in
        {IF lx.peek \in {" ", "\t", "\r", "\n"} THEN skip_whitespace(next(lx)) ELSE lx :
            lx \in {self}} : TRUE

\* results of the eat_ functions: the lexer after them, the text eaten, and
\* Ok / Err(msg) / a panic
Eaten(st, lx, s, msg) == [st |-> st, lx |-> lx, s |-> s, msg |-> msg]

\* Lexer::eat_comment (208-219)
RECURSIVE eat_comment(_, _)
eat_comment(self, comment_food) ==
    CHOOSE result \in
        {IF l.curr \in {"\n", NoChar}
         THEN Eaten("ok", l, comment_food, "")
         ELSE eat_comment(l, Append(comment_food, l.curr)) :
            l \in {next(self)}} : TRUE

\* Lexer::eat_identifier (221-241)
RECURSIVE eat_identifier(_, _)
eat_identifier(self, identifier) ==
    CHOOSE result \in
        {IF lx.curr = NoChar
         THEN Eaten("panic", lx, identifier, "self.curr was EOF")
         ELSE LET id == Append(identifier, lx.curr)
                  p == lx.peek
              IN  IF p # NoChar /\ (Ord[p] \in 42..126 \/ Ord[p] = 33 \/ Ord[p] \in 35..39)
                  THEN eat_identifier(next(lx), id)
                  ELSE Eaten("ok", lx, id, "") :
            lx \in {self}} : TRUE

\* Lexer::eat_string (243-265)
RECURSIVE eat_string(_, _)
eat_string(self, string_lit) ==
    CHOOSE result \in
        {CASE l.curr = "\"" -> Eaten("ok", l, string_lit, "")
           [] l.curr = "\\" ->
                 LET e == next(l)
                 IN  CASE e.curr = "r" -> eat_string(e, Append(string_lit, "\r"))
                       [] e.curr = "n" -> eat_string(e, Append(string_lit, "\n"))
                       [] e.curr = "t" -> eat_string(e, Append(string_lit, "\t"))
                       [] e.curr = NoChar ->
                             Eaten("err", e, <<>>, "reached EOF before end of string")
                       [] OTHER -> Eaten("err", e, <<>>, "unknown escape sequence")
           [] l.curr = NoChar ->
                 Eaten("err", l, <<>>, "reached EOF before end of string")
           [] OTHER -> eat_string(l, Append(string_lit, l.curr)) :
            l \in {next(self)}} : TRUE

\* Lexer::eat_number (267-321).  The lexeme stands for the f64 that
\* num_str.parse() makes of it.
RECURSIVE eat_number(_, _, _)
eat_number(self, num_str, decimal) ==
    CHOOSE result \in
        {IF lx.curr = NoChar
         THEN Eaten("panic", lx, num_str, "self.curr was EOF")
         ELSE LET num == Append(num_str, lx.curr)
                  c == lx.curr
                  p == lx.peek
                  Unexpected == Eaten("err", lx, <<>>, "unexpected character while parsing number")
              IN  IF Ord[c] \in 48..57
                  THEN IF p = NoChar THEN eat_number(next(lx), num, decimal)
                       ELSE IF Ord[p] \in 48..57 \/ p = "." THEN eat_number(next(lx), num, decimal)
                       ELSE IF p \in {" ", "\t", "\r", "\n", "(", ")"} THEN Eaten("ok", lx, num, "")
                       ELSE Unexpected
                  ELSE IF c = "."
                  THEN IF decimal THEN Eaten("err", lx, <<>>, "decimal specified twice in number")
                       ELSE IF p = NoChar THEN Eaten("err", lx, <<>>, "EOF reached before end of number")
                       ELSE IF Ord[p] \in 48..57 THEN eat_number(next(lx), num, TRUE)
                       ELSE Unexpected
                  ELSE Eaten("ok", lx, num, "") :
            lx \in {self}} : TRUE

\* Lexer::next_token (175-206): the token, the lexer after the call, and
\* whether the call returned ("ok") or aborted ("panic")
next_token(self) ==
    LET Returned(e, t) ==
            IF e.st = "panic" THEN [st |-> "panic", tok |-> Token("None", <<>>, e.msg), lx |-> e.lx]
            ELSE IF e.st = "err" THEN [st |-> "ok", tok |-> Token("Error", <<>>, e.msg), lx |-> e.lx]
            ELSE [st |-> "ok", tok |-> Token(t, e.s, ""), lx |-> e.lx]
        \* the token of the character c, with the lexer l that has just read it
        TokenAt(l, c) ==
            IF c = NoChar THEN Returned(Eaten("ok", l, <<>>, ""), "Eof")
            ELSE IF c = ";" THEN CHOOSE r \in {Returned(e, "Comment") : e \in {eat_comment(l, <<>>)}} : TRUE
            ELSE IF c = "(" THEN Returned(Eaten("ok", l, <<>>, ""), "Lparen")
            ELSE IF c = ")" THEN Returned(Eaten("ok", l, <<>>, ""), "Rparen")
            ELSE IF Ord[c] \in 42..47 \/ Ord[c] \in 58..126 \/ Ord[c] = 33 \/ Ord[c] \in 35..39
                 THEN CHOOSE r \in {Returned(e, "Identifier") : e \in {eat_identifier(l, <<>>)}} : TRUE
            ELSE IF c = "\""
                 THEN CHOOSE r \in {Returned(e, "StringLit") : e \in {eat_string(l, <<>>)}} : TRUE
            ELSE IF Ord[c] \in 48..57
                 THEN CHOOSE r \in {Returned(e, "Number") : e \in {eat_number(l, <<>>, FALSE)}} : TRUE
            ELSE Returned(Eaten("ok", l, <<c>>, ""), "Unknown")
    IN  CHOOSE result \in {TokenAt(l, l.curr) : l \in {next(skip_whitespace(self))}} : TRUE

\* one call of next_token by the owner of the lexer
NextToken ==
    /\ lex_status = "ok"
    /\ parse_result.st = "none"
    /\ Len(tokens) < Len(source) + 1 + MaxCalls
    /\ LET r == next_token(lexer)
       IN  /\ lexer' = r.lx
           /\ lex_status' = r.st
           /\ tokens' = IF r.st = "ok" THEN Append(tokens, r.tok) ELSE tokens
    /\ UNCHANGED <<source, parse_result, pp, reprinted>>
    /\ UNCHANGED <<vm_vars, type_vars>>

----------------------------------------------------------------------------
\* The parser (parser.rs)

\* Parser::next (126-128); st is "panic" once the lexer has aborted
Parser_next(p) ==
    CHOOSE result \in
        {[lx |-> r.lx, current_tok |-> r.tok, st |-> r.st] : r \in {next_token(p.lx)}} : TRUE

\* Parser::is_expr_start (110-115)
is_expr_start(p) ==
    p.st = "ok" /\ p.current_tok.t \in {"Lparen", "Identifier", "StringLit", "Number"}

Parsed(st, node, p, msg) == [st |-> st, node |-> node, p |-> p, msg |-> msg]

\* Parser::expr (57-107); expr_children is the while loop of the Lparen branch
RECURSIVE expr(_)
RECURSIVE expr_children(_, _)
expr(self) ==
    LET \* the self.next() that ends expr (105)
        Done(node, from) ==
            CHOOSE result \in
                {Parsed(IF q.st = "panic" THEN "panic" ELSE "ok", node, q, "") :
                    q \in {Parser_next(from)}} : TRUE
        \* what follows the while loop of the Lparen branch (84-101)
        Closed(c) ==
            LET q == c.p
            IN  IF c.st # "ok" THEN c
                ELSE IF q.st = "panic" THEN Parsed("panic", c.node, q, "")
                ELSE IF q.current_tok.t = "Error"
                THEN Parsed("err", c.node, q, q.current_tok.msg)
                ELSE IF q.current_tok.t = "Unknown"
                THEN Parsed("err", c.node, q, "syntax error: unexpected character")
                ELSE IF q.current_tok.t # "Rparen"
                THEN Parsed("err", c.node, q, "unexpected token")
                ELSE Done(c.node, q)
        Body(p) ==
            LET tok == p.current_tok
            IN  IF ~is_expr_start(p)
                THEN Parsed("err", Expr(<<>>), p, "unexpected token")
                ELSE CASE tok.t = "Identifier" -> Done(Identifier(tok.s), p)
                       [] tok.t = "StringLit" -> Done(StringLit(tok.s), p)
                       [] tok.t = "Number" -> Done(Node("Number", 0, tok.s, <<>>), p)
                       [] tok.t = "Lparen" ->
                            CHOOSE result \in
                                {Closed(c) : c \in {expr_children(Parser_next(p), <<>>)}} : TRUE
    IN  CHOOSE result \in {Body(p) : p \in {self}} : TRUE

expr_children(self, exprs) ==
    LET Pushed(r) == IF r.st # "ok" THEN r
                     ELSE expr_children(r.p, Append(exprs, r.node))
        Body(p) == IF is_expr_start(p)
                   THEN CHOOSE result \in {Pushed(r) : r \in {expr(p)}} : TRUE
                   ELSE Parsed("ok", Expr(exprs), p, "")
    IN  CHOOSE result \in {Body(p) : p \in {self}} : TRUE

\* the loop of Parser::parse (25-53)
RECURSIVE parse_loop(_, _)
parse_loop(self, tree) ==
    LET Pushed(r) == IF r.st = "ok" THEN parse_loop(r.p, Append(tree, r.node))
                     ELSE [st |-> r.st, tree |-> <<>>, msg |-> r.msg]
        Body(p) ==
            LET t == p.current_tok.t
            IN  IF p.st = "panic" THEN [st |-> "panic", tree |-> <<>>, msg |-> ""]
                ELSE IF is_expr_start(p)
                THEN CHOOSE result \in {Pushed(r) : r \in {expr(p)}} : TRUE
                ELSE IF t = "Comment" THEN parse_loop(Parser_next(p), tree)
                ELSE IF t = "Eof" THEN [st |-> "ok", tree |-> tree, msg |-> ""]
                ELSE IF t = "Error" THEN [st |-> "err", tree |-> <<>>, msg |-> "lexer error"]
                ELSE [st |-> "err", tree |-> <<>>, msg |-> "unexpected token"]
    IN  CHOOSE result \in {Body(p) : p \in {self}} : TRUE

\* Parser::new (15-20) and Parser::parse (22-55) on a source text
parse(source_text) ==
    parse_loop(Parser_next([lx |-> Lexer_new(source_text),
                            current_tok |-> Token("None", <<>>, ""),
                            st |-> "ok"]),
               <<>>)

Parse ==
    /\ parse_result.st = "none"
    /\ tokens = <<>>
    /\ lex_status = "ok"
    /\ parse_result' = parse(source)
    /\ UNCHANGED <<source, lexer, tokens, lex_status, pp, reprinted>>
    /\ UNCHANGED <<vm_vars, type_vars>>

\* str::parse::<f64> of a lexeme of eat_number (lexer.rs 320): the value, as
\* the digits before and after the point without the zeros that do not count
RECURSIVE StripLeadingZeros(_)
StripLeadingZeros(digits) ==
    IF Len(digits) > 1 /\ Head(digits) = "0" THEN StripLeadingZeros(Tail(digits))
    ELSE digits

RECURSIVE StripTrailingZeros(_)
StripTrailingZeros(digits) ==
    IF digits # <<>> /\ digits[Len(digits)] = "0"
    THEN StripTrailingZeros(SubSeq(digits, 1, Len(digits) - 1))
    ELSE digits

f64_parse(num_str) ==
    LET points == {i \in 1..Len(num_str) : num_str[i] = "."}
        point == IF points = {} THEN Len(num_str) + 1 ELSE CHOOSE i \in points : TRUE
    IN  [int |-> StripLeadingZeros(SubSeq(num_str, 1, point - 1)),
         frac |-> StripTrailingZeros(SubSeq(num_str, point + 1, Len(num_str)))]

\* Display of an f64 (ast.rs 114): no point when the value is integral
f64_display(n) ==
    IF n.frac = <<>> THEN n.int ELSE n.int \o <<".">> \o n.frac

\* print_spaces (ast.rs 132-136)
print_spaces(count) == [i \in 1..count |-> " "]

\* AST::display_recursive (ast.rs 92-117)
RECURSIVE display_recursive(_, _)
RECURSIVE display_children(_, _)
display_recursive(node, level) ==
    CASE node.k = "Expr" ->
            print_spaces(level * 4) \o <<"(", "\n">>
            \o display_children(node.c, level + 1)
            \o print_spaces(level * 4) \o <<")">>
      [] node.k = "StringLit" -> print_spaces(level * 4) \o <<"\"">> \o node.s \o <<"\"">>
      [] node.k = "Identifier" -> print_spaces(level * 4) \o node.s
      [] OTHER -> print_spaces(level * 4) \o f64_display(f64_parse(node.s))

\* the `for` loop of the Expr branch (97-100)
display_children(v, level) ==
    IF v = <<>> THEN <<>>
    ELSE display_recursive(Head(v), level) \o <<"\n">> \o display_children(Tail(v), level)

\* every node of the parsed tree is printed by its Display (ast.rs 138-150)
\* and the text is given to a new lexer and parser
Reprint ==
    /\ parse_result.st = "ok"
    /\ ~reprinted.done
    /\ reprinted' =
          [done |-> TRUE,
           results |-> [i \in 1..Len(parse_result.tree) |->
                           parse(display_recursive(parse_result.tree[i], 0))]]
    /\ UNCHANGED <<source, lexer, tokens, lex_status, parse_result, pp>>
    /\ UNCHANGED <<vm_vars, type_vars>>

Sources == SeqsUpTo(Alphabet, MaxSrc)

\* further sources: numbers with zeros that do not count, nested lists,
\* strings with escapes and with line ends
CaseSources ==
    {<<"1", ".", "0", " ">>,
     <<"0", "1", "\n">>,
     <<"(", "1", ".", "1", "0", ")">>,
     <<"(", "n", " ", "1", ")", "n">>,
     <<"(", "(", "1", ")", "(", ")", ")">>,
     <<"(", "n", " ", "\"", "\\", "t", "\n", "\"", ")">>,
     <<"\"", "n", "\"", " ", "1", "0", " ", "n">>,
     <<"n", ";", "n", " ", "1", "\n">>}

FrontInit ==
    /\ source \in Sources \cup CaseSources
    /\ lexer = Lexer_new(source)
    /\ tokens = <<>>
    /\ lex_status = "ok"
    /\ parse_result = [st |-> "none", tree |-> <<>>, msg |-> ""]
    /\ pp = [status |-> "idle", runs |-> 0, input |-> <<>>, first |-> <<>>]
    /\ reprinted = [done |-> FALSE, results |-> <<>>]
    /\ VMIdle
    /\ TypeIdle

FrontNext == NextToken \/ Parse \/ Reprint
FrontSpec == FrontInit /\ [][FrontNext]_vars

----------------------------------------------------------------------------
\* Claims about the lexer and the parser

\* the tokens of a text up to the first Eof, and whether lexing aborted
RECURSIVE lex_all(_, _)
lex_all(lx, toks) ==
    CHOOSE result \in
        {IF r.st = "panic" THEN [st |-> "panic", toks |-> toks]
         ELSE IF r.tok.t = "Eof" THEN [st |-> "ok", toks |-> Append(toks, r.tok)]
         ELSE lex_all(r.lx, Append(toks, r.tok)) :
            r \in {next_token(lx)}} : TRUE

\* program := expr* ; expr := atom | Lparen expr* Rparen, then Eof
RECURSIVE MatchesProgram(_, _)
MatchesProgram(toks, depth) ==
    IF toks = <<>> THEN FALSE
    ELSE LET t == Head(toks).t
         IN  CASE t = "Eof" -> depth = 0 /\ Len(toks) = 1
               [] t = "Lparen" -> MatchesProgram(Tail(toks), depth + 1)
               [] t = "Rparen" -> depth > 0 /\ MatchesProgram(Tail(toks), depth - 1)
               [] t \in {"Identifier", "StringLit", "Number"} ->
                     MatchesProgram(Tail(toks), depth)
               [] OTHER -> FALSE

WithoutComments(toks) ==
    LET NotComment(t) == t.t # "Comment"
    IN  SelectSeq(toks, NotComment)

\* C13: next_token never aborts, and after at most one call per character
\* of the source it returns Eof.
C13_LexingEndsInEof ==
    /\ lex_status = "ok"
    /\ Len(tokens) > Len(source) => tokens[Len(source) + 1].t = "Eof"

\* C14: a comment causes no parse error: a source whose tokens, the comments
\* left out, form a program is parsed to a tree.
C14_CommentsAreSkipped ==
    LET l == lex_all(Lexer_new(source), <<>>)
    IN  (/\ parse_result.st # "none"
         /\ l.st = "ok"
         /\ \E i \in 1..Len(l.toks) : l.toks[i].t = "Comment"
         /\ MatchesProgram(WithoutComments(l.toks), 0))
            => parse_result.st = "ok"

\* C15: parse returns: a tree only when the tokens of the source (comments
\* left out) match program := expr*, and otherwise an error and no tree.
C15_ParseReturnsTreeOrError ==
    parse_result.st # "none" =>
        /\ parse_result.st \in {"ok", "err"}
        /\ parse_result.st = "ok" =>
               LET l == lex_all(Lexer_new(source), <<>>)
               IN  l.st = "ok" /\ MatchesProgram(WithoutComments(l.toks), 0)
        /\ parse_result.st = "err" => parse_result.tree = <<>>

\* C16: once next_token has returned Eof, every later call returns Eof.
C16_EofIsTerminal ==
    \A i \in 1..(Len(tokens) - 1) :
        tokens[i].t = "Eof" => tokens[i + 1].t = "Eof"

C16_Witness ==
    /\ Len(tokens) = 4
    /\ tokens[1].t = "Identifier"
    /\ tokens[2].t = "Eof"
    /\ tokens[4].t = "Eof"

----------------------------------------------------------------------------
\* Claims about variable access in the VM

\* the instruction dispatched last by the innermost run
LastDispatched ==
    IF frames # <<>> /\ cur.ip > 1 /\ (cur.ip - 1) \in cur.executed
    THEN cur.code[cur.ip - 1]
    ELSE Instr("None", <<>>, NoValue, 0)

\* the effect of reading `name`: the value of the innermost table that binds
\* it is pushed, or the run fails and nothing is pushed
ReadsInnermost(name) ==
    LET binders == {i \in 1..Len(var_stack) : name \in DOMAIN var_stack[i]}
    IN  IF binders = {}
        THEN vm_status' = "err" /\ value_stack' = value_stack
        ELSE /\ vm_status' = "running"
             /\ \E i \in binders :
                    /\ \A j \in binders : j <= i
                    /\ value_stack' = Append(value_stack, var_stack[i][name])

\* C19: Load(name) and Push of an Identifier search the scope stack from the
\* innermost table outwards and push the value of the first table that binds
\* the name; when none binds it the run fails and nothing is pushed.
C19_LoadReadsInnermostBinding ==
    [][/\ AtInstr("Load") => ReadsInnermost(instr.name)
       /\ (AtInstr("Push") /\ instr.val.t = "Identifier") => ReadsInnermost(instr.val.s)]_vars

C19_Witness ==
    /\ vm_status = "running"
    /\ LastDispatched = Load(X)
    /\ Len(var_stack) >= 2
    /\ X \in DOMAIN var_stack[Len(var_stack)]
    /\ X \in DOMAIN var_stack[Len(var_stack) - 1]
    /\ var_stack[Len(var_stack)][X] # var_stack[Len(var_stack) - 1][X]
    /\ Top(value_stack) = var_stack[Len(var_stack)][X]

\* the effect of writing `name`: only that binding of the innermost table changes
WritesInnermost(name, value) ==
    LET n == Len(var_stack)
    IN  /\ Len(var_stack') = n
        /\ \A i \in 1..(n - 1) : var_stack'[i] = var_stack[i]
        /\ DOMAIN var_stack'[n] = DOMAIN var_stack[n] \cup {name}
        /\ var_stack'[n][name] = value
        /\ \A k \in DOMAIN var_stack[n] \ {name} : var_stack'[n][k] = var_stack[n][k]

\* C20: Pop(name) and Store(name, v) change only the binding of name in the
\* innermost table, also when an outer table binds the same name; a Pop or
\* Store that fails changes no table.
C20_WritesOnlyInnermostBinding ==
    [][/\ AtInstr("Store") =>
            IF vm_status' = "running" THEN WritesInnermost(instr.name, instr.val)
            ELSE var_stack' = var_stack
       /\ AtInstr("Pop") =>
            IF vm_status' = "running" THEN WritesInnermost(instr.name, Top(value_stack))
            ELSE var_stack' = var_stack]_vars

C20_Witness ==
    /\ vm_status = "running"
    /\ LastDispatched = Store(X, VNumber(7))
    /\ Len(var_stack) >= 2
    /\ X \in DOMAIN var_stack[Len(var_stack) - 1]
    /\ var_stack[Len(var_stack) - 1][X] = VNumber(1)
    /\ var_stack[Len(var_stack)][X] = VNumber(7)

----------------------------------------------------------------------------
\* The preprocessor (preprocessor.rs) and its gatherers (gatherer.rs)

DEFINE_KEYWORD == <<"&", "d", "e", "f", "i", "n", "e">>
EXTERN_KEYWORD == <<"&", "e", "x", "t", "e", "r", "n">>
TYPE_KEYWORD == <<"&", "t", "y", "p", "e">>
INCLUDE_KEYWORD == <<"&", "i", "n", "c", "l", "u", "d", "e">>
OPTIONAL_TOKEN == <<"?">>

\* is_builtin without the comparison with EXTERN_KEYWORD
is_builtin_without_extern(keyword) ==
    keyword \in {DEFINE_KEYWORD, TYPE_KEYWORD, INCLUDE_KEYWORD}

is_builtin(keyword) ==
    keyword \in {DEFINE_KEYWORD, EXTERN_KEYWORD, TYPE_KEYWORD, INCLUDE_KEYWORD}

\* results of the visit_expr functions and of gather: Ok(item), Err or a panic
Visited(st, item) == [st |-> st, item |-> item]

\* Gatherer::visit_exprs (44-62): the top-level nodes a gatherer visits
visits(node, keyword) ==
    /\ node.k = "Expr"
    /\ Len(node.c) # 0
    /\ node.c[1].k = "Identifier"
    /\ node.c[1].s = keyword

\* the nodes of a tree a gatherer visits
visited(tree, keyword) == {tree[i] : i \in {j \in 1..Len(tree) : visits(tree[j], keyword)}}

\* Gatherer::gather (25-42): the items of the visited nodes in tree order, or
\* the failure of the first visit that fails.  visit_expr maps each visited
\* node to the result of the gatherer's visit_expr on its items.
gather(tree, keyword, visit_expr) ==
    LET Visits(node) == visits(node, keyword)
        hits == SelectSeq(tree, Visits)
        bad == {i \in 1..Len(hits) : visit_expr[hits[i]].st # "ok"}
    IN  IF bad # {}
        THEN Visited(visit_expr[hits[CHOOSE i \in bad : \A j \in bad : i <= j]].st, <<>>)
        ELSE Visited("ok", [i \in 1..Len(hits) |-> visit_expr[hits[i]].item])

\* TypeGatherer::visit_expr (354-377)
type_visit_expr(exprs) ==
    IF Len(exprs) # 3 THEN Visited("err", NoMapping)
    ELSE IF exprs[2].k # "Identifier" \/ exprs[3].k # "Identifier" THEN Visited("err", NoMapping)
    ELSE IF exprs[2].s = exprs[3].s THEN Visited("err", NoMapping)
    ELSE Visited("ok", Mapping(exprs[2].s, exprs[3].s))

\* the `loop` of gather_and_link (404-441)
RECURSIVE link_loop(_, _, _)
link_loop(table, proto, last) ==
    IF Len(proto) = 0 THEN Visited("ok", table)
    ELSE IF NoProgress(last, proto) THEN Visited("err", <<>>)
    ELSE LET r == loop_pass(table, proto)
             pending == StillPending(r.table, proto)
         IN  IF r.st # "ok" THEN Visited("err", <<>>)
             ELSE link_loop(r.table, pending, Len(pending))

\* TypeGatherer::gather_and_link (381-449)
gather_and_link(exprs) ==
    LET g == gather(exprs, TYPE_KEYWORD,
                    [node \in visited(exprs, TYPE_KEYWORD) |-> type_visit_expr(node.c)])
        f == first_pass(<<TNumber, TStr, TListy>>, g.item, <<>>)
    IN  IF g.st # "ok" THEN Visited(g.st, <<>>)
        ELSE IF f.st # "ok" THEN Visited("err", <<>>)
        ELSE link_loop(f.table, f.proto, 0)

\* FunGatherer::get_params (187-241), from item i of the list on
RECURSIVE get_params(_, _, _, _, _)
get_params(expr_list, types, i, optional, params) ==
    IF i > Len(expr_list) THEN Visited("ok", params)
    ELSE IF expr_list[i].k # "Identifier" THEN Visited("err", <<>>)
    ELSE IF expr_list[i].s = OPTIONAL_TOKEN
    THEN IF optional THEN Visited("err", <<>>)
         ELSE get_params(expr_list, types, i + 1, TRUE, params)
    ELSE LET param == Param(expr_list[i].s, optional)
         IN  IF i = Len(expr_list)
             THEN get_params(expr_list, types, i + 1, optional, Append(params, param))
             ELSE IF expr_list[i + 1].k # "Identifier" THEN Visited("err", <<>>)
             ELSE IF get_type(types, expr_list[i + 1].s).k # "None"
             THEN get_params(expr_list, types, i + 2, optional, Append(params, param))
             ELSE get_params(expr_list, types, i + 1, optional, Append(params, param))

\* FunGatherer::visit_expr (250-287); AST::identifier panics on another node
fun_visit_expr(exprs, types) ==
    IF Len(exprs) < 3 THEN Visited("err", <<>>)
    ELSE IF exprs[2].k # "Identifier" THEN Visited("panic", <<>>)
    ELSE IF exprs[3].k # "Expr" THEN Visited("err", <<>>)
    ELSE LET p == get_params(exprs[3].c, types, 1, FALSE, <<>>)
             start == IF Len(exprs) > 3 /\ exprs[4].k = "StringLit" THEN 5 ELSE 4
         IN  IF p.st # "ok" THEN p
             ELSE Visited("ok", Function(exprs[2].s, p.item, SubSeq(exprs, start, Len(exprs))))

\* ExternGatherer::visit_expr (303-339)
extern_visit_expr(exprs) ==
    IF Len(exprs) < 3 \/ Len(exprs) > 4 THEN Visited("err", <<>>)
    ELSE IF exprs[2].k # "Identifier" THEN Visited("panic", <<>>)
    ELSE IF exprs[3].k # "Expr" THEN Visited("err", <<>>)
    ELSE IF \E i \in 1..Len(exprs[3].c) : exprs[3].c[i].k # "Identifier" THEN Visited("err", <<>>)
    ELSE IF Len(exprs) = 4 /\ exprs[4].k # "StringLit" THEN Visited("err", <<>>)
    ELSE Visited("ok", Function(exprs[2].s,
                                [i \in 1..Len(exprs[3].c) |-> Param(exprs[3].c[i].s, FALSE)],
                                <<>>))

MaxIncludeDepth == 3
MaxTop == 3
MaxRuns == 2

P_FILE == <<"p">>
Q_FILE == <<"q">>
R_FILE == <<"r">>
S_FILE == <<"s">>
T_FILE == <<"t">>

\* the files that exist, with the tree the parser makes of each; q includes
\* itself, s and t include each other, p and r include nothing
Files ==
    P_FILE :> <<Expr(<<Identifier(TYPE_KEYWORD), Identifier(INT_TYPE), Identifier(TA)>>),
                Expr(<<Identifier(DEFINE_KEYWORD), Identifier(Y), Expr(<<>>), Number(2)>>),
                Number(3)>>
    @@ Q_FILE :> <<Expr(<<Identifier(INCLUDE_KEYWORD), StringLit(Q_FILE)>>)>>
    @@ R_FILE :> <<Expr(<<Identifier(DEFINE_KEYWORD), Identifier(X), Expr(<<Identifier(A)>>),
                          Identifier(A)>>),
                   Number(4)>>
    @@ S_FILE :> <<Expr(<<Identifier(INCLUDE_KEYWORD), StringLit(T_FILE)>>)>>
    @@ T_FILE :> <<Number(5), Expr(<<Identifier(INCLUDE_KEYWORD), StringLit(S_FILE)>>)>>

PPResult(st, tree, funs, types) == [st |-> st, tree |-> tree, funs |-> funs, types |-> types]

\* Preprocessor::preprocess_builtins (44-118), with IncludeGatherer::visit_expr
\* (84-127) and compile_path (145-171) for the includes.  depth counts the
\* nested preprocess calls that may still be made: the recursion of the source
\* has no bound, and a run that needs more ends as "diverges".
RECURSIVE preprocess_builtins(_, _, _, _)
RECURSIVE include_paths(_, _, _)
RECURSIVE include_gather(_, _, _)

preprocess_builtins(tree, funs, types, depth) ==
    LET IsInclude(node) == visits(node, INCLUDE_KEYWORD)
        Retained(node) ==
            ~(node.k = "Expr" /\ Len(node.c) > 0
              /\ node.c[1].k = "Identifier" /\ is_builtin(node.c[1].s))
        \* the stages after the includes (62-117); inc is what the includes gave
        Stages(inc) ==
            LET all == tree \o inc.tree
                linked == gather_and_link(all)
                merged == merge(inc.types, linked.item)
                defined == gather(all, DEFINE_KEYWORD,
                                  [node \in visited(all, DEFINE_KEYWORD) |->
                                      fun_visit_expr(node.c, merged.types)])
                externs == gather(all, EXTERN_KEYWORD,
                                  [node \in visited(all, EXTERN_KEYWORD) |->
                                      extern_visit_expr(node.c)])
            IN  IF inc.st # "ok" THEN PPResult(inc.st, tree, funs, types)
                ELSE IF linked.st # "ok" THEN PPResult(linked.st, tree, funs, types)
                ELSE IF merged.st # "ok" THEN PPResult("err", tree, funs, types)
                ELSE IF defined.st # "ok" THEN PPResult(defined.st, tree, funs, types)
                ELSE IF externs.st # "ok" THEN PPResult(externs.st, tree, funs, types)
                ELSE PPResult("ok", SelectSeq(all, Retained),
                              append_funs(append_funs(inc.funs, defined.item), externs.item),
                              merged.types)
    IN  CHOOSE result \in
            {Stages(inc) : inc \in {include_gather(SelectSeq(tree, IsInclude),
                                                   PPResult("ok", <<>>, funs, types),
                                                   depth)}} : TRUE

\* the second loop of IncludeGatherer::visit_expr (112-125) over the paths of
\* one directive; acc holds the trees gathered and the tables merged so far
include_paths(paths, acc, depth) ==
    LET Merged(file) ==
            LET types == merge(acc.types, file.types)
            IN  IF file.st # "ok" THEN PPResult(file.st, acc.tree, acc.funs, acc.types)
                ELSE IF types.st # "ok" THEN PPResult("err", acc.tree, acc.funs, acc.types)
                ELSE include_paths(Tail(paths),
                                   PPResult("ok", acc.tree \o file.tree,
                                            append_funs(acc.funs, file.funs), types.types),
                                   depth)
    IN  IF paths = <<>> THEN acc
        ELSE IF depth = 0 THEN PPResult("diverges", acc.tree, acc.funs, acc.types)
        ELSE CHOOSE result \in
                 {Merged(file) :
                     file \in {preprocess_builtins(Files[Head(paths).s], <<>>, <<>>,
                                                   depth - 1)}} : TRUE

\* IncludeGatherer over the &include nodes of a tree, in tree order
include_gather(nodes, acc, depth) ==
    IF nodes = <<>> THEN acc
    ELSE LET paths == Tail(Head(nodes).c)
             Gathered(r) == IF r.st # "ok" THEN r
                            ELSE include_gather(Tail(nodes), r, depth)
         IN  IF \E i \in 1..Len(paths) :
                    paths[i].k # "StringLit" \/ paths[i].s \notin DOMAIN Files
             THEN PPResult("err", acc.tree, acc.funs, acc.types)
             ELSE CHOOSE result \in {Gathered(r) : r \in {include_paths(paths, acc, depth)}} : TRUE

\* Preprocessor::preprocess (28-36) on the tree and the tables of main.  What a
\* failed call leaves in the tree and the tables is not kept: main exits.
Preprocess ==
    /\ pp.status \in {"new", "ok"}
    /\ pp.runs < MaxRuns
    /\ LET r == preprocess_builtins(ast, fun_table, self_table, MaxIncludeDepth)
       IN  IF r.st = "ok"
           THEN /\ ast' = r.tree
                /\ fun_table' = r.funs
                /\ self_table' = r.types
                /\ pp' = [pp EXCEPT !.status = "ok", !.runs = @ + 1,
                                    !.first = IF pp.runs = 0 THEN <<r.tree, r.funs, r.types>>
                                              ELSE @]
           ELSE /\ pp' = [pp EXCEPT !.status = r.st, !.runs = @ + 1]
                /\ UNCHANGED <<ast, fun_table, self_table>>
    /\ UNCHANGED <<bytecode, frames, var_stack, value_stack, fun_bytecode,
                   fun_stack, vm_status, new_count, pop_count>>
    /\ UNCHANGED <<type_mappings, type_table, proto_types, last_size, gl_pc,
                   gl_result, passes, merges>>
    /\ UNCHANGED <<source, lexer, tokens, lex_status, parse_result, reprinted>>

\* the top-level nodes of the trees of the model
TopNodes ==
    {Number(1),
     Expr(<<>>),
     Expr(<<Identifier(F), Number(1)>>),
     Expr(<<StringLit(DEFINE_KEYWORD), Identifier(F)>>),
     Expr(<<Identifier(TYPE_KEYWORD), Identifier(INT_TYPE), Identifier(TB)>>),
     Expr(<<Identifier(TYPE_KEYWORD), Identifier(TB), Identifier(TC)>>),
     Expr(<<Identifier(TYPE_KEYWORD), Identifier(TB), Identifier(TB)>>),
     Expr(<<Identifier(DEFINE_KEYWORD), Identifier(F),
            Expr(<<Identifier(A), Identifier(TB), Identifier(OPTIONAL_TOKEN), Identifier(B)>>),
            StringLit(X), Identifier(A)>>),
     Expr(<<Identifier(DEFINE_KEYWORD), Number(1), Expr(<<>>)>>),
     Expr(<<Identifier(EXTERN_KEYWORD), Identifier(X), Expr(<<Identifier(A)>>)>>),
     Expr(<<Identifier(INCLUDE_KEYWORD), StringLit(P_FILE)>>),
     Expr(<<Identifier(INCLUDE_KEYWORD), StringLit(Q_FILE)>>),
     Expr(<<Identifier(INCLUDE_KEYWORD), StringLit(X)>>),
     Expr(<<Identifier(INCLUDE_KEYWORD), StringLit(R_FILE), StringLit(P_FILE)>>),
     Expr(<<Identifier(INCLUDE_KEYWORD), StringLit(P_FILE), Number(1)>>)}

MaxParams == 4

\* the items of the parameter lists of the model
ParamItems ==
    {Identifier(A), Identifier(B), Identifier(OPTIONAL_TOKEN), Identifier(INT_TYPE), Number(1)}

\* a declaration of the alias `?` of :int
OptionalTokenAsType ==
    Expr(<<Identifier(TYPE_KEYWORD), Identifier(INT_TYPE), Identifier(OPTIONAL_TOKEN)>>)

DefineOf(plist) ==
    Expr(<<Identifier(DEFINE_KEYWORD), Identifier(F), Expr(plist), Number(1)>>)

\* trees with one &define, alone or after the declaration of the alias `?`
DefineTrees ==
    {<<DefineOf(plist)>> : plist \in SeqsUpTo(ParamItems, MaxParams)}
    \cup {<<OptionalTokenAsType, DefineOf(plist)>> : plist \in SeqsUpTo(ParamItems, MaxParams)}

\* &define forms with too few items, with a name that is no identifier, with
\* no parameter list, with a parameter list that holds another node
MalformedDefines ==
    {Expr(<<Identifier(DEFINE_KEYWORD)>> \o rest) :
        rest \in {<<>>,
                  <<Identifier(F)>>,
                  <<Identifier(F), Number(1), Number(2)>>,
                  <<Identifier(F), Identifier(A), Number(2)>>,
                  <<Number(1), Expr(<<>>), Number(2)>>,
                  <<StringLit(F), Expr(<<Identifier(A)>>), Number(2)>>,
                  <<Expr(<<>>), Expr(<<>>), Number(2)>>,
                  <<Identifier(F), Expr(<<Number(1)>>), Number(2)>>,
                  <<Identifier(F), Expr(<<Identifier(A), StringLit(B)>>), Number(2)>>,
                  <<Identifier(F), Expr(<<Identifier(A), Expr(<<Identifier(B)>>)>>), Number(2)>>}}

\* trees with one malformed &define, alone or after a node that is kept
MalformedDefineTrees ==
    {<<form>> : form \in MalformedDefines}
    \cup {<<Number(1), form>> : form \in MalformedDefines}

\* trees that include one of the two files that include each other
CyclicTrees ==
    {<<Expr(<<Identifier(INCLUDE_KEYWORD), StringLit(S_FILE)>>)>>,
     <<Number(1), Expr(<<Identifier(INCLUDE_KEYWORD), StringLit(P_FILE), StringLit(T_FILE)>>)>>}

PreprocessInit ==
    /\ ast \in SeqsUpTo(TopNodes, MaxTop) \cup DefineTrees \cup MalformedDefineTrees
                \cup CyclicTrees
    /\ fun_table = <<>>
    /\ self_table = <<>>
    /\ pp = [status |-> "new", runs |-> 0, input |-> ast, first |-> <<>>]
    /\ reprinted = [done |-> FALSE, results |-> <<>>]
    /\ VMNew
    /\ type_mappings = <<>> /\ type_table = <<>> /\ proto_types = <<>>
    /\ last_size = 0 /\ gl_pc = "idle" /\ passes = 0 /\ merges = 0
    /\ gl_result = GResult("none", NoMapping)
    /\ source = <<>> /\ tokens = <<>> /\ lex_status = "ok"
    /\ lexer = Lexer_new(<<>>)
    /\ parse_result = [st |-> "none", tree |-> <<>>, msg |-> ""]

PreprocessSpec == PreprocessInit /\ [][Preprocess]_vars

----------------------------------------------------------------------------
\* Claims about the preprocessor

HasDirectiveHead(node) ==
    /\ node.k = "Expr"
    /\ Len(node.c) > 0
    /\ node.c[1].k = "Identifier"
    /\ node.c[1].s \in {INCLUDE_KEYWORD, TYPE_KEYWORD, DEFINE_KEYWORD, EXTERN_KEYWORD}

OtherNodes(tree) ==
    LET Other(node) == ~HasDirectiveHead(node)
    IN  SelectSeq(tree, Other)

\* the nodes of the files that are no directives
FileNodes ==
    LET nodes == UNION {{Files[f][i] : i \in 1..Len(Files[f])} : f \in DOMAIN Files}
    IN  {n \in nodes : ~HasDirectiveHead(n)}

\* C17: after preprocess returned Ok no top-level node of the tree, the nodes
\* appended from included files among them, is an Expr headed by one of the
\* identifiers &include, &type, &define, &extern; every other node of the
\* tree given is kept, in its order, ahead of the nodes of the included files.
C17_PruneRemovesDirectivesOnly ==
    (pp.status = "ok" /\ pp.runs >= 1) =>
        LET kept == OtherNodes(pp.input)
        IN  /\ \A i \in 1..Len(ast) : ~HasDirectiveHead(ast[i])
            /\ Len(kept) <= Len(ast)
            /\ SubSeq(ast, 1, Len(kept)) = kept
            /\ \A i \in (Len(kept) + 1)..Len(ast) : ast[i] \in FileNodes

\* a tree with a directive after a node that is kept, and an include that
\* appended a node
C17_Witness ==
    /\ pp.status = "ok"
    /\ pp.runs = 1
    /\ \E i, j \in 1..Len(pp.input) :
          /\ i < j
          /\ ~HasDirectiveHead(pp.input[i])
          /\ HasDirectiveHead(pp.input[j])
    /\ \E i \in 1..Len(pp.input) : pp.input[i].c # <<>> /\ pp.input[i].c[1].s = EXTERN_KEYWORD
                                      /\ pp.input[i].c[1].k = "Identifier"
    /\ Len(ast) > Len(OtherNodes(pp.input))

\* C18: a second run of the preprocessor, on the tree and with the tables the
\* first run produced, succeeds and leaves the tree, the function table and
\* the type table as the first run left them.
C18_SecondRunIsNoOp ==
    pp.runs >= 2 =>
        /\ pp.status = "ok"
        /\ <<ast, fun_table, self_table>> = pp.first

\* a second run over a tree with nodes left and over tables with a function
\* and an alias
C18_Witness ==
    /\ pp.runs = 2
    /\ pp.status = "ok"
    /\ Len(ast) > 0
    /\ Len(fun_table) > 0
    /\ \E i \in 1..Len(self_table) : self_table[i].k = "TypeDef"

----------------------------------------------------------------------------
\* Claims about single instructions and intrinsics

\* the current run after the step
cur_after == frames'[Len(frames)]

\* C21: SkipFalse(n) pops exactly one value; it sets the skip counter to n
\* exactly when the value is Number 0, the empty String, the empty List or
\* Boolean false, and skips nothing for any other Number, String, List or
\* Boolean; for an Identifier, StartArgs or EndArgs value the run fails with
\* an error.
C21_SkipFalseSkipsOnFalsyOnly ==
    [][(AtInstr("SkipFalse") /\ Len(value_stack) > 0) =>
          LET v == Top(value_stack)
          IN  /\ value_stack' = Drop(value_stack, 1)
              /\ v.t \in {"Number", "String", "List", "Boolean"} =>
                    /\ vm_status' = "running"
                    /\ Len(frames') = Len(frames)
                    /\ cur_after.ip = cur.ip + 1
                    /\ cur_after.skip =
                          IF v \in {VNumber(0), VString(<<>>), VList(<<>>), VBoolean(FALSE)}
                          THEN instr.n ELSE 0
              /\ v.t \in {"Identifier", "StartArgs", "EndArgs"} => vm_status' = "err"]_vars

\* SkipFalse has just popped the empty String and skips
C21_Witness ==
    /\ vm_status = "running"
    /\ LastDispatched.op = "SkipFalse"
    /\ cur.ip > 2
    /\ cur.code[cur.ip - 2] = Push(VString(<<>>))
    /\ cur.skip = LastDispatched.n
    /\ cur.skip > 0

\* expressions whose value is read off the tree: literals, the empty list, an
\* `if` over number literals, and list forms of such expressions
RECURSIVE Known(_)
Known(e) ==
    \/ e.k \in {"Number", "StringLit"}
    \/ e.k = "Expr" /\ e.c = <<>>
    \/ /\ e.k = "Expr" /\ Len(e.c) = 4 /\ e.c[1] = Identifier(IF_NAME)
       /\ \A i \in 2..4 : e.c[i].k = "Number"
    \/ /\ e.k = "Expr" /\ Len(e.c) >= 1 /\ e.c[1] = Identifier(LIST_NAME)
       /\ \A i \in 2..Len(e.c) : Known(e.c[i])

RECURSIVE ValueOf(_)
ValueOf(e) ==
    CASE e.k = "Number" -> VNumber(e.n)
      [] e.k = "StringLit" -> VString(e.s)
      [] e.k = "Expr" /\ e.c = <<>> -> VList(<<>>)
      [] e.k = "Expr" /\ e.c # <<>> /\ e.c[1] = Identifier(IF_NAME) ->
            IF e.c[2].n # 0 THEN VNumber(e.c[3].n) ELSE VNumber(e.c[4].n)
      [] OTHER -> VList([i \in 1..(Len(e.c) - 1) |-> ValueOf(e.c[i + 1])])

\* the program ends with a list form of known elements, after number literals
EndsWithListForm ==
    /\ ast # <<>>
    /\ ast[Len(ast)].k = "Expr"
    /\ ast[Len(ast)].c # <<>>
    /\ ast[Len(ast)].c[1] = Identifier(LIST_NAME)
    /\ Known(ast[Len(ast)])
    /\ \A i \in 1..(Len(ast) - 1) : ast[i].k = "Number"

\* C22: executing the code of (list x1 ... xn), whose elements each leave
\* one value, leaves one List value [x1, ..., xn] in source order on the
\* values that were below, which are unchanged; (list) yields the empty List.
C22_ListFormYieldsElementsInOrder ==
    (EndsWithListForm /\ vm_status \notin {"new", "compiled", "running"}) =>
        /\ vm_status = "ok"
        /\ value_stack = [i \in 1..Len(ast) |-> ValueOf(ast[i])]

\* the intrinsic `name` is called with at least k values on the stack
CallsIntrinsic(name, k) ==
    /\ AtInstr("Call")
    /\ instr.name = name
    /\ ~has_function(name)
    /\ Len(value_stack) >= k

\* C23: append pops two values; when both are Strings or both are Lists it
\* pushes (value under the top) ++ (top value), so that (append a b) yields a
\* followed by b; otherwise the run fails with an error and nothing is pushed.
C23_AppendConcatenatesUnderThenTop ==
    [][CallsIntrinsic(APPEND, 2) =>
          LET top == Top(value_stack)
              under == value_stack[Len(value_stack) - 1]
              rest == Drop(value_stack, 2)
          IN  IF top.t = "String" /\ under.t = "String"
              THEN /\ vm_status' = "running"
                   /\ value_stack' = Append(rest, VString(under.s \o top.s))
              ELSE IF top.t = "List" /\ under.t = "List"
              THEN /\ vm_status' = "running"
                   /\ value_stack' = Append(rest, VList(under.l \o top.l))
              ELSE /\ vm_status' = "err"
                   /\ value_stack' = rest]_vars

\* (append "s" "t") has run
C23_Witness ==
    /\ ast = <<Expr(<<Identifier(APPEND), StringLit(S_TEXT), StringLit(T_TEXT)>>)>>
    /\ vm_status = "ok"
    /\ value_stack = <<VString(S_TEXT \o T_TEXT)>>

\* the operands of a binary intrinsic and the value it leaves
RightOperand == Top(value_stack)
LeftOperand == value_stack[Len(value_stack) - 1]
PushedValue == value_stack'[Len(value_stack) - 1]

\* the effect of a binary numeric intrinsic on a stack of two or more values;
\* is_result says that PushedValue is (left op right)
NumericEffect(is_result) ==
    LET rest == Drop(value_stack, 2)
    IN  IF LeftOperand.t = "Number" /\ RightOperand.t = "Number"
        THEN /\ vm_status' = "running"
             /\ Len(value_stack') = Len(rest) + 1
             /\ SubSeq(value_stack', 1, Len(rest)) = rest
             /\ is_result
        ELSE /\ vm_status' = "err"
             /\ value_stack' = rest

\* C24: +, -, *, / pop the right operand first and the left operand second
\* and push (left op right), so that (- x y) over two variables of an
\* enclosing let yields x minus y; when either value is not a Number the run
\* fails with an error and nothing is pushed.  The quotient is stated for the
\* divisions that are exact.
C24_ArithmeticIsLeftOpRight ==
    [][/\ CallsIntrinsic(PLUS, 2) =>
            NumericEffect(PushedValue = VNumber(LeftOperand.n + RightOperand.n))
       /\ CallsIntrinsic(MINUS, 2) =>
            NumericEffect(PushedValue = VNumber(LeftOperand.n - RightOperand.n))
       /\ CallsIntrinsic(TIMES, 2) =>
            NumericEffect(PushedValue = VNumber(LeftOperand.n * RightOperand.n))
       /\ CallsIntrinsic(DIVIDE, 2) =>
            NumericEffect(
                /\ PushedValue.t = "Number"
                /\ (/\ RightOperand.n # 0
                    /\ \E q \in 0..LeftOperand.n : q * RightOperand.n = LeftOperand.n) =>
                        /\ PushedValue.s = <<>>
                        /\ PushedValue.n * RightOperand.n = LeftOperand.n)]_vars

\* (let ((x 6) (y 2)) (- x y)) has run
C24_Witness ==
    /\ ast = <<Expr(<<Identifier(LET_NAME),
                      Expr(<<Binding(X, Number(6)), Binding(Y, Number(2))>>),
                      Expr(<<Identifier(MINUS), Identifier(X), Identifier(Y)>>)>>)>>
    /\ vm_status = "ok"
    /\ value_stack = <<VNumber(4)>>

\* Claims about &include

IsIncludeNode(node) ==
    /\ node.k = "Expr"
    /\ Len(node.c) > 0
    /\ node.c[1] = Identifier(INCLUDE_KEYWORD)

\* the paths of the include directives of a tree, in tree order
RECURSIVE IncludePaths(_)
IncludePaths(tree) ==
    IF tree = <<>> THEN <<>>
    ELSE (IF IsIncludeNode(Head(tree)) THEN Tail(Head(tree).c) ELSE <<>>)
         \o IncludePaths(Tail(tree))

\* files that include nothing
PlainFiles == {P_FILE, R_FILE}

AllPathsPlain(tree) ==
    \A i \in 1..Len(IncludePaths(tree)) :
        /\ IncludePaths(tree)[i].k = "StringLit"
        /\ IncludePaths(tree)[i].s \in PlainFiles

SomePathBad(tree) ==
    \E i \in 1..Len(IncludePaths(tree)) :
        \/ IncludePaths(tree)[i].k # "StringLit"
        \/ IncludePaths(tree)[i].s \notin DOMAIN Files

NoPathCyclic(tree) ==
    \A i \in 1..Len(IncludePaths(tree)) :
        IncludePaths(tree)[i].k = "StringLit"
            => IncludePaths(tree)[i].s \notin {Q_FILE, S_FILE, T_FILE}

\* the pruned nodes of the files of a sequence of paths, in that order
RECURSIVE PrunedNodesOf(_)
PrunedNodesOf(paths) ==
    IF paths = <<>> THEN <<>>
    ELSE OtherNodes(Files[Head(paths).s]) \o PrunedNodesOf(Tail(paths))

\* every function and every type a file declares is in the tables
TablesHold(file) ==
    \A i \in 1..Len(Files[file]) :
        LET node == Files[file][i]
        IN  /\ (HasDirectiveHead(node) /\ node.c[1].s = DEFINE_KEYWORD) =>
                    \E j \in 1..Len(fun_table) : fun_table[j].name = node.c[2].s
            /\ (HasDirectiveHead(node) /\ node.c[1].s = TYPE_KEYWORD) =>
                    \E j \in 1..Len(self_table) :
                        self_table[j] = TypeDef(node.c[3].s, node.c[2].s)

\* C25: for include directives whose paths are all string literals naming
\* existing files, the functions and the types of each file, preprocessed
\* with fresh tables, are in the tables of the including file, and the pruned
\* top-level nodes of the files follow all of the including file's own nodes,
\* in include order; a missing file or a path that is no string literal makes
\* preprocess return an error.
C25_IncludeAppendsAndMerges ==
    pp.runs >= 1 =>
        /\ (SomePathBad(pp.input) /\ NoPathCyclic(pp.input)) => pp.status = "err"
        /\ (AllPathsPlain(pp.input) /\ pp.status = "ok") =>
              /\ ast = OtherNodes(pp.input) \o PrunedNodesOf(IncludePaths(pp.input))
              /\ \A i \in 1..Len(IncludePaths(pp.input)) :
                    TablesHold(IncludePaths(pp.input)[i].s)
        /\ (AllPathsPlain(pp.input)
                /\ \A i \in 1..Len(pp.input) :
                        HasDirectiveHead(pp.input[i]) => IsIncludeNode(pp.input[i]))
              => pp.status = "ok"

\* two directives with three paths, and a node of the including file after them
C25_Witness ==
    /\ pp.status = "ok"
    /\ pp.runs = 1
    /\ Len(IncludePaths(pp.input)) = 3
    /\ AllPathsPlain(pp.input)
    /\ IsIncludeNode(pp.input[1])
    /\ ~HasDirectiveHead(pp.input[Len(pp.input)])
    /\ Len(ast) = 4
    /\ Len(fun_table) = 3

----------------------------------------------------------------------------
\* Claims about calls and failures

\* the scope tables the current run has pushed: its entry table and the
\* tables of the lets it is inside of
OwnTables == (cur.base + 1)..Len(var_stack)

\* C26: the body of a user function sees only its own scope tables, its
\* parameters among them: a Load in the body of a name that none of them
\* binds fails with an unknown-variable error, also when a table of a caller
\* binds the name.
C26_FunctionSeesOnlyItsOwnScope ==
    [][(/\ AtInstr("Load")
        /\ Len(frames) >= 2
        /\ \A i \in OwnTables : instr.name \notin DOMAIN var_stack[i])
          => (vm_status' = "err" /\ value_stack' = value_stack)]_vars

\* the instruction about to be dispatched fails: an unknown identifier, a
\* call of an unknown function, a function whose body does not compile, an
\* intrinsic that returns Err
UnknownIdentifier ==
    \/ AtInstr("Load") /\ \A i \in 1..Len(var_stack) : instr.name \notin DOMAIN var_stack[i]
    \/ /\ AtInstr("Push") /\ instr.val.t = "Identifier"
       /\ \A i \in 1..Len(var_stack) : instr.val.s \notin DOMAIN var_stack[i]
UnknownFunction ==
    /\ AtInstr("Call")
    /\ ~has_fun(fun_table, instr.name)
    /\ instr.name \notin DOMAIN fun_bytecode
    /\ instr.name \notin BUILTIN_FUNCTIONS
LazyCompileError ==
    /\ AtInstr("Call")
    /\ has_fun(fun_table, instr.name)
    /\ instr.name \notin DOMAIN fun_bytecode
    /\ to_bytecode(fun_table, get_fun(fun_table, instr.name).body).st = "err"
IntrinsicError ==
    /\ AtInstr("Call")
    /\ ~has_fun(fun_table, instr.name)
    /\ instr.name \notin DOMAIN fun_bytecode
    /\ instr.name \in ModelledBuiltins
    /\ builtin(instr.name, value_stack).st = "err"
InstructionFails ==
    UnknownIdentifier \/ UnknownFunction \/ LazyCompileError \/ IntrinsicError

\* C27: when an instruction fails inside a run at any call depth, no further
\* instruction executes in that run or in an enclosing run and the outermost
\* run returns an error: the failure ends the execution with every run where
\* it stood, and nothing executes after it.
C27_FailureEndsEveryRun ==
    [][/\ InstructionFails => (vm_status' = "err" /\ frames' = frames)
       /\ vm_status = "err" => UNCHANGED vm_vars]_vars

\* an intrinsic has failed in a function called by a function
C27_Witness ==
    /\ vm_status = "err"
    /\ Len(frames) = 3
    /\ instr = Call(PLUS, 2)
    /\ frames[1].ip <= Len(frames[1].code)
    /\ frames[2].ip <= Len(frames[2].code)

\* the instruction about to be dispatched pops more values than the value
\* stack holds
PopsFromEmptyStack ==
    \/ AtInstr("Pop") /\ Len(value_stack) = 0
    \/ AtInstr("SkipFalse") /\ Len(value_stack) = 0
    \/ /\ AtInstr("Call")
       /\ ~has_function(instr.name)
       /\ instr.name \in ModelledBuiltins
       /\ Len(value_stack) < PopsOf(instr.name)

\* C28: each runtime failure (unknown identifier on Load, pop from an empty
\* value stack by Pop, SkipFalse or an intrinsic, type mismatch in an
\* intrinsic, unknown function at a call site) makes run return an error;
\* none of them aborts the VM.
C28_RuntimeFailuresReturnErrors ==
    [][(InstructionFails \/ PopsFromEmptyStack) => vm_status' = "err"]_vars

\* Claims about parameter lists

\* the parameter list of the &define of a tree of DefineTrees
DeclaredList == pp.input[Len(pp.input)].c[3].c

OptionalTokens(plist) ==
    {i \in 1..Len(plist) : plist[i] = Identifier(OPTIONAL_TOKEN)}

\* C29: in every parameter list FunGatherer accepts the optional parameters
\* follow the non-optional ones and `?` itself is no parameter; a parameter
\* list that contains `?` more than once is rejected with an error.
C29_OptionalTokenAtMostOnce ==
    (pp.input \in DefineTrees /\ pp.runs >= 1) =>
        /\ pp.status \in {"ok", "err"}
        /\ pp.status = "ok" =>
              LET params == fun_table[1].params
              IN  /\ \A i, j \in 1..Len(params) :
                        (i < j /\ params[i].optional) => params[j].optional
                  /\ \A i \in 1..Len(params) : params[i].name # OPTIONAL_TOKEN
        /\ Cardinality(OptionalTokens(DeclaredList)) > 1 => pp.status = "err"

\* Claims about compile errors

\* the form of the tree: at top level, or as an operand
FormCompiled == IF ast[1].c[1] = Identifier(PLUS) THEN ast[1].c[3] ELSE ast[1]

\* C30: the compiler returns a compile error, and does not abort, for every
\* malformed let (no binding list, a binding list that is no expression, a
\* binding that is no two-item list whose first item is an identifier) and
\* for every if that does not have exactly three operands.
C30_MalformedLetAndIfAreCompileErrors ==
    (vm_status # "new" /\ fun_table = <<>>
        /\ FormCompiled \in MalformedLets \cup MalformedIfs)
      => (bytecode.st = "err" /\ vm_status = "compile_error")

----------------------------------------------------------------------------
\* Claims about malformed &define forms

\* a &define form FunGatherer::visit_expr is to refuse
MalformedDefine(node) ==
    /\ visits(node, DEFINE_KEYWORD)
    /\ \/ Len(node.c) < 3
       \/ node.c[2].k # "Identifier"
       \/ node.c[3].k # "Expr"
       \/ \E i \in 1..Len(node.c[3].c) : node.c[3].c[i].k # "Identifier"

\* C31: a tree without includes that holds a malformed &define form (fewer
\* than three items, a name that is no identifier, a third item that is no
\* list, a parameter list with an item that is no identifier) makes the
\* preprocessor return an error and register no function; it does not abort.
C31_MalformedDefineIsAnError ==
    (/\ pp.runs >= 1
     /\ \E i \in 1..Len(pp.input) : MalformedDefine(pp.input[i])
     /\ \A i \in 1..Len(pp.input) : ~IsIncludeNode(pp.input[i]))
    => /\ pp.status = "err"
       /\ fun_table = <<>>

----------------------------------------------------------------------------
\* Claims about printing and parsing again

\* the same shape, the same kinds of leaves and the same values of leaves
RECURSIVE SameTree(_, _)
SameTree(a, b) ==
    /\ a.k = b.k
    /\ IF a.k = "Number" THEN f64_parse(a.s) = f64_parse(b.s) ELSE a.s = b.s
    /\ Len(a.c) = Len(b.c)
    /\ \A i \in 1..Len(a.c) : SameTree(a.c[i], b.c[i])

\* C32: every top-level node of a tree the parser produced, printed by the
\* pretty-printer, is lexed and parsed to a tree of that one node, with the
\* same shape, the same leaf kinds and the same leaf values; atoms at top
\* level are among them.
C32_PrintedTreeParsesToItself ==
    reprinted.done =>
        \A i \in 1..Len(parse_result.tree) :
            /\ reprinted.results[i].st = "ok"
            /\ Len(reprinted.results[i].tree) = 1
            /\ SameTree(reprinted.results[i].tree[1], parse_result.tree[i])

----------------------------------------------------------------------------
\* Claims about the scope of a let

\* the let forms that enclose position ip of a code: the NewVarStack
\* instructions before it that no PopVarStack before it closes
LetDepth(code, ip) ==
    Cardinality({j \in 1..(ip - 1) : code[j].op = "NewVarStack"})
    - Cardinality({j \in 1..(ip - 1) : code[j].op = "PopVarStack"})

\* the tables a Load at the current position may see: those below the run,
\* the table of the run and one table for each let form that encloses the Load
TablesInScope ==
    LET n == cur.base + 1 + LetDepth(cur.code, cur.ip)
    IN  SubSeq(var_stack, 1, IF n < Len(var_stack) THEN n ELSE Len(var_stack))

\* C33: a variable bound by a let is visible only while the body of that let
\* executes: a Load yields the innermost binding among the tables of the lets
\* that enclose it and of the runs in progress, and fails when none of them
\* binds the name, whatever the bodies of the lets passed before are.
C33_LetBindingEndsWithItsBody ==
    [][AtInstr("Load") =>
          IF has_var(TablesInScope, instr.name)
          THEN value_stack' = Append(value_stack, get_var(TablesInScope, instr.name))
          ELSE vm_status' = "err"]_vars

----------------------------------------------------------------------------
\* Claims about the callee of a Call

\* the step enters a run of the user function of the name
RunsUserFunction(name) ==
    /\ Len(frames') = Len(frames) + 1
    /\ fun_stack' = Append(fun_stack, name)
    /\ LET body == compile_function(fun_table, get_fun(fun_table, name))
       IN  frames'[Len(frames')].code = body.code

\* the step runs the intrinsic of the name inside the instruction
RunsIntrinsic(name) ==
    /\ Len(frames') = Len(frames)
    /\ value_stack' = builtin(name, value_stack).stack

\* C34: Call(name) runs the user function when the function table has the
\* name, otherwise the intrinsic when the intrinsic table has it, otherwise
\* returns an error; a user function with the name of an intrinsic is the one
\* run, and the compiler took the call for a call of the same callee.
C34_CompilerAndVMAgreeOnCallee ==
    [][AtInstr("Call") =>
          /\ IF has_fun(fun_table, instr.name)
             THEN vm_status' = "running" => RunsUserFunction(instr.name)
             ELSE IF instr.name \in BUILTIN_FUNCTIONS
             THEN RunsIntrinsic(instr.name)
             ELSE vm_status' = "err"
          /\ UsesIntrinsicPath(fun_table, instr.name) <=> ~has_fun(fun_table, instr.name)]_vars

----------------------------------------------------------------------------
\* Claims about the bytecode cache

\* the step is the Call of a user function whose body compiles
CallsCompiling(name) ==
    /\ AtInstr("Call")
    /\ instr.name = name
    /\ has_fun(fun_table, name)
    /\ compile_function(fun_table, get_fun(fun_table, name)).st = "ok"

\* C35: an entry of the bytecode cache is never replaced or removed; an entry
\* is added only by the first call of its function, and is the compiled body;
\* every call of a function runs the entry of the cache, calls of a function
\* by itself among them; a compilation that fails caches nothing.
C35_CacheFilledOnceOnFirstCall ==
    [][/\ \A name \in DOMAIN fun_bytecode :
              /\ name \in DOMAIN fun_bytecode'
              /\ fun_bytecode'[name] = fun_bytecode[name]
       /\ \A name \in DOMAIN fun_bytecode' \ DOMAIN fun_bytecode :
              /\ CallsCompiling(name)
              /\ fun_bytecode'[name] = compile_function(fun_table, get_fun(fun_table, name)).code
       /\ \A name \in {fun_table[i].name : i \in 1..Len(fun_table)} :
              CallsCompiling(name) =>
                  /\ name \in DOMAIN fun_bytecode'
                  /\ Len(frames') = Len(frames) + 1
                  /\ frames'[Len(frames')].code = fun_bytecode'[name]
       /\ vm_status' \in {"err", "panic"} => fun_bytecode' = fun_bytecode]_vars

\* a function that is in the cache runs, called by itself
C35_Witness ==
    /\ Len(frames) = 3
    /\ fun_stack = <<U, U>>
    /\ U \in DOMAIN fun_bytecode
    /\ frames[3].code = fun_bytecode[U]
    /\ frames[2].code = fun_bytecode[U]

----------------------------------------------------------------------------
\* Claims about the values of the value stack

\* C36: no Identifier value is ever on the value stack: what the compiled
\* instructions push are resolved values, the value a Load reads from a
\* variable that a let bound to an identifier operand among them.
C36_NoIdentifierOnValueStack ==
    \A i \in 1..Len(value_stack) : value_stack[i].t # "Identifier"

\* a value at top level followed by a call of a user function
ValueThenUserCall ==
    /\ Len(ast) = 2
    /\ ast[1].k = "Number"
    /\ is_expr(ast[2])
    /\ Len(ast[2].c) > 0
    /\ is_identifier(ast[2].c[1])
    /\ has_fun(fun_table, ast[2].c[1].s)

\* C37: the call of a user function, with any argument count the compiler
\* accepts, leaves the values that were on the value stack before its
\* arguments were pushed as they were: the value pushed before the call is
\* the bottom of the stack during the call and after it.
C37_CallKeepsValuesBelowArguments ==
    (ValueThenUserCall /\ frames # <<>> /\ frames[1].ip > 1) =>
        /\ Len(value_stack) >= 1
        /\ value_stack[1] = to_value(ast[1])

\* the StartArgs and EndArgs values of a stack
Sentinels(stack) ==
    Cardinality({i \in 1..Len(stack) : stack[i].t \in {"StartArgs", "EndArgs"}})

\* C38: when the list intrinsic returns Ok for a list form, the StartArgs and
\* the EndArgs pushed for that form are both gone from the value stack,
\* whatever the elements are: calls of user functions that leave no value or
\* several values among them.
C38_ListRemovesBothSentinels ==
    [][(AtInstr("Call") /\ instr.name = LIST_NAME /\ ~has_function(LIST_NAME)
            /\ vm_status' = "running")
          => Sentinels(value_stack') = Sentinels(value_stack) - 2]_vars

----------------------------------------------------------------------------
\* Claims about the end of preprocessing

\* C39: preprocessing ends for every set of files, those in which a file
\* includes itself or two files include each other among them: no call of
\* preprocess goes on into nested calls without end.  (A chain of more than
\* MaxIncludeDepth nested calls passes some file twice, and the nested call
\* for a file depends on nothing but the file.)
C39_PreprocessingEnds ==
    pp.status # "diverges"

====
